---- MODULE Spec2Model ----
(***************************************************************************)
(* A model of pyvcloud/vcd/client.py: the session layer of Client (version *)
(* negotiation, login, rehydrate, logout), the chunked-upload retry loop   *)
(* and the task monitor's polling loop.                                    *)
(*                                                                         *)
(* Python strings that the code parses or compares (API versions) are      *)
(* sequences of one-character strings; None is the empty sequence for a    *)
(* version, "None" for a token, 0 for a connection.                        *)
(***************************************************************************)
EXTENDS Integers, Sequences, FiniteSets, TLC

VARIABLES
    api_version,          \* Client._api_version
    session,              \* Client._session: a connection id, 0 is None
    vcloud_session,       \* Client._vcloud_session: the session document
    vcloud_auth_token,    \* Client._vcloud_auth_token
    vcloud_access_token,  \* Client._vcloud_access_token
    session_endpoints,    \* Client._session_endpoints
    is_sysadmin,          \* Client._is_sysadmin
    conns,                \* every requests.Session: "free", "open", "closed"
    call,                 \* the last call on the client and how it ended
    calls,                \* number of calls made so far
    up,                   \* upload_fragment: the retry loop's state
    tm,                   \* _TaskMonitor.wait_for_status: the loop's state
    lk,                   \* a document and the last link lookup on it
    rq,                   \* the last call of the request pipeline and the log
    qr,                   \* a query: the server's pages and the result sequence
    wk,                   \* Client._query_list_map and the last catalog call
    dl                    \* download_from_uri: the sink and the callback

vars == <<api_version, session, vcloud_session, vcloud_auth_token,
          vcloud_access_token, session_endpoints, is_sysadmin, conns, call,
          calls, up, tm, lk, rq, qr, wk, dl>>

clientVars == <<api_version, session, vcloud_session, vcloud_auth_token,
                vcloud_access_token, session_endpoints, is_sysadmin, conns,
                call, calls>>

----------------------------------------------------------------------------
(* Bounds of the model *)

MaxVersionInfos == 3   \* VersionInfo entries in one /versions document
MaxConn == 5           \* requests.Session objects alive or just closed
MaxCalls == 3          \* calls on one client in the session specification
MaxPolls == 3          \* polls in one wait_for_status call
MaxTime == 4           \* clock ticks in one wait_for_status call
MaxChildren == 3       \* child elements of a document in a link lookup
MaxPages == 3          \* pages in the chain a query walks
MaxPageRecords == 2    \* records on one page of a query result
MaxCatalogCalls == 4   \* calls on one client in the catalog specification
MaxFilterTokens == 2   \* tokens in the filter expression of a query
MaxChunks == 3         \* chunks in the body of a download

----------------------------------------------------------------------------
(* Strings *)

None == <<>>
NoToken == "None"

DigitVal(c) ==
    CASE c = "0" -> 0 [] c = "1" -> 1 [] c = "2" -> 2 [] c = "3" -> 3
      [] c = "4" -> 4 [] c = "5" -> 5 [] c = "6" -> 6 [] c = "7" -> 7
      [] c = "8" -> 8 [] c = "9" -> 9

RECURSIVE ParseInt(_)
ParseInt(s) ==
    IF Len(s) = 0 THEN 0
    ELSE ParseInt(SubSeq(s, 1, Len(s) - 1)) * 10 + DigitVal(s[Len(s)])

\* s.split('.')
RECURSIVE SplitDots(_)
SplitDots(s) ==
    IF \A i \in 1..Len(s) : s[i] # "." THEN <<s>>
    ELSE LET d == CHOOSE i \in 1..Len(s) :
                      s[i] = "." /\ \A j \in 1..(i - 1) : s[j] # "."
         IN <<SubSeq(s, 1, d - 1)>> \o SplitDots(SubSeq(s, d + 1, Len(s)))

\* distutils.version.StrictVersion(s).version: (major, minor, patch)
StrictVersion(s) ==
    LET p == SplitDots(s)
    IN <<ParseInt(p[1]), ParseInt(p[2]),
         IF Len(p) >= 3 THEN ParseInt(p[3]) ELSE 0>>

\* StrictVersion._cmp: a < b on the version tuples
VersionLess(a, b) ==
    \/ a[1] < b[1]
    \/ a[1] = b[1] /\ a[2] < b[2]
    \/ a[1] = b[1] /\ a[2] = b[2] /\ a[3] < b[3]

\* float(s) * 100 for a version string with at most two fraction digits
FloatTimes100(s) ==
    LET p == SplitDots(s)
        f == IF Len(p) >= 2 THEN p[2] ELSE <<>>
    IN ParseInt(p[1]) * 100
       + (IF Len(f) >= 1 THEN DigitVal(f[1]) * 10 ELSE 0)
       + (IF Len(f) >= 2 THEN DigitVal(f[2]) ELSE 0)

V5_5 == <<"5", ".", "5">>
V27 == <<"2", "7", ".", "0">>
V29 == <<"2", "9", ".", "0">>
V30 == <<"3", "0", ".", "0">>
V31 == <<"3", "1", ".", "0">>
V32 == <<"3", "2", ".", "0">>
V33 == <<"3", "3", ".", "0">>
V34 == <<"3", "4", ".", "0">>
V35 == <<"3", "5", ".", "0">>
V36 == <<"3", "6", ".", "0">>
V37 == <<"3", "7", ".", "0">>

\* ApiVersion.VERSION_33: the first version that logs in through /cloudapi
VERSION_33 == V33

API_CURRENT_VERSIONS == <<V29, V30, V31, V32, V33, V34, V35, V36>>

SYSTEM_ORG_NAME == "system"

\* str.lower() on the organisation names, task statuses and header names of
\* the model
lower(s) ==
    CASE s = "System" -> "system"
      [] s = "SYSTEM" -> "system"
      [] s = "Success" -> "success"
      [] s = "SUCCESS" -> "success"
      [] s = "Error" -> "error"
      [] s = "preRunning" -> "prerunning"
      [] s = "Authorization" -> "authorization"
      [] s = "X-VCLOUD-AUTHORIZATION" -> "x-vcloud-authorization"
      [] s = "X-VMWARE-VCLOUD-ACCESS-TOKEN" -> "x-vmware-vcloud-access-token"
      [] s = "X-VMWARE-VCLOUD-REQUEST-ID" -> "x-vmware-vcloud-request-id"
      [] s = "Content-Type" -> "content-type"
      [] s = "Content-Range" -> "content-range"
      [] s = "Content-Length" -> "content-length"
      [] s = "Accept" -> "accept"
      [] OTHER -> s

Range(s) == {s[i] : i \in 1..Len(s)}

\* the order active_versions.sort(key=StrictVersion) sorts by
SortKeyLess(a, b) == VersionLess(StrictVersion(a), StrictVersion(b))

\* list.sort(key=StrictVersion) as a stable insertion sort
RECURSIVE InsertSorted(_, _)
InsertSorted(x, s) ==
    IF Len(s) = 0 THEN <<x>>
    ELSE IF SortKeyLess(x, s[1]) THEN <<x>> \o s
    ELSE <<s[1]>> \o InsertSorted(x, Tail(s))

RECURSIVE SortVersions(_)
SortVersions(s) ==
    IF Len(s) = 0 THEN <<>>
    ELSE InsertSorted(s[Len(s)], SortVersions(SubSeq(s, 1, Len(s) - 1)))

Reverse(s) == [i \in 1..Len(s) |-> s[Len(s) + 1 - i]]

----------------------------------------------------------------------------
(* Connections: requests.Session objects *)

ConnIds == 1..MaxConn

\* a closed requests.Session that nothing refers to any more is forgotten
\* when the next call starts; an open one never is
ForgetClosed(cn, held) ==
    [i \in ConnIds |-> IF cn[i] = "closed" /\ i # held THEN "free" ELSE cn[i]]

HasFreeConn(cn, n) == Cardinality({i \in ConnIds : cn[i] = "free"}) >= n

\* requests.Session(): the id of the new connection
NewConn(cn) == CHOOSE i \in ConnIds : cn[i] = "free" /\ \A j \in 1..(i - 1) : cn[j] # "free"

Open(cn, c) == [cn EXCEPT ![c] = "open"]

\* requests.Session.close()
Close(cn, c) == [cn EXCEPT ![c] = "closed"]

Request(method, uri, c) == [method |-> method, uri |-> uri, conn |-> c]

----------------------------------------------------------------------------
(* Version discovery and negotiation *)

ServerVersionStrings == {V5_5, V27, V33, V36, V37}

\* a <VersionInfo> element of the /versions document: its <Version> text, its
\* deprecated="..." XML attribute ("absent" if it has none) and whether it has
\* a child element named deprecated.  The server's documents carry the flag
\* as the attribute that version.get('deprecated') reads and have no such
\* child element
VersionInfos ==
    [Version : ServerVersionStrings,
     deprecated : {"absent", "true", "false"},
     child : {FALSE}]

RECURSIVE SeqsUpTo(_, _)
SeqsUpTo(S, n) ==
    IF n = 0 THEN {<<>>}
    ELSE LET shorter == SeqsUpTo(S, n - 1)
         IN shorter \cup {Append(q, x) : q \in {r \in shorter : Len(r) = n - 1}, x \in S}

\* the /versions documents of the model: no version is listed twice
VersionDocs ==
    {d \in SeqsUpTo(VersionInfos, MaxVersionInfos) :
        \A i, j \in 1..Len(d) : i # j => d[i].Version # d[j].Version}

\* the answers to GET {api}/versions
VersionResponses ==
    {[kind |-> "transport_error", status |-> 0, versions |-> <<>>],
     [kind |-> "garbage", status |-> 200, versions |-> <<>>],
     [kind |-> "xml", status |-> 500, versions |-> <<>>]}
    \cup {[kind |-> "xml", status |-> 200, versions |-> d] : d \in VersionDocs}

\* the server marks the version deprecated
MarkedDeprecated(vi) == vi.deprecated = "true"

\* hasattr(version, 'deprecated') on an ObjectifiedElement looks up a child
\* element of that name; version.get('deprecated') reads the XML attribute
IsActive(vi) == ~vi.child \/ vi.deprecated = "false"

RECURSIVE SelectActive(_)
SelectActive(d) ==
    IF Len(d) = 0 THEN <<>>
    ELSE (IF IsActive(d[1]) THEN <<d[1].Version>> ELSE <<>>) \o SelectActive(Tail(d))

\* Client.get_supported_versions_list: the connection is opened and closed by
\* the with block on every path
get_supported_versions_list(cn, resp) ==
    LET c == NewConn(cn)
        req == <<Request("GET", "api/versions", c)>>
        done(exc, value) ==
            [exc |-> exc, value |-> value, conns |-> Close(Open(cn, c), c),
             opened |-> {c}, reqs |-> req]
    IN IF resp.kind = "transport_error" THEN done("ConnectionError", <<>>)
       ELSE IF resp.status # 200 THEN done("VcdException", <<>>)
       ELSE IF resp.kind = "garbage" THEN done("XMLSyntaxError", <<>>)
       ELSE IF Len(resp.versions) = 0 THEN done("AttributeError", <<>>)
       ELSE done("ok", SortVersions(SelectActive(resp.versions)))

\* for version in reversed(active_versions): if version in
\* API_CURRENT_VERSIONS: ... break
RECURSIVE FirstCurrent(_)
FirstCurrent(s) ==
    IF Len(s) = 0 THEN None
    ELSE IF s[1] \in Range(API_CURRENT_VERSIONS) THEN s[1]
    ELSE FirstCurrent(Tail(s))

SelectVersion(active_versions) == FirstCurrent(Reverse(active_versions))

\* the statements of _negotiate_api_version that follow
\* active_versions = self.get_supported_versions_list(), r being how that
\* call ended
negotiate_from(r) ==
    LET v == SelectVersion(r.value)
    IN [exc |-> IF r.exc # "ok" THEN r.exc
                ELSE IF v = None THEN "VcdException" ELSE "ok",
        api_version |-> IF r.exc = "ok" THEN v ELSE None,
        conns |-> r.conns, opened |-> r.opened, reqs |-> r.reqs,
        active |-> r.value]

\* the negotiation without its test of self._api_version
negotiate_always(ver, cn, resp) ==
    negotiate_from(get_supported_versions_list(cn, resp))

\* Client._negotiate_api_version
negotiate_api_version(ver, cn, resp) ==
    IF ver # None
    THEN [exc |-> "ok", api_version |-> ver, conns |-> cn, opened |-> {},
          reqs |-> <<>>, active |-> <<>>]
    ELSE negotiate_from(get_supported_versions_list(cn, resp))

\* the statement of set_highest_supported_version that follows
\* active_versions = self.get_supported_versions_list():
\* self._api_version = active_versions[-1]
highest_from(ver, r) ==
    [exc |-> IF r.exc # "ok" THEN r.exc
             ELSE IF Len(r.value) = 0 THEN "IndexError" ELSE "ok",
     api_version |-> IF r.exc = "ok" /\ Len(r.value) > 0
                     THEN r.value[Len(r.value)] ELSE ver,
     conns |-> r.conns, opened |-> r.opened, reqs |-> r.reqs,
     active |-> r.value]

\* Client.set_highest_supported_version
set_highest_supported_version(ver, cn, resp) ==
    highest_from(ver, get_supported_versions_list(cn, resp))


----------------------------------------------------------------------------
(* Documents, links and the status-code mapping *)

NoType == "None"
NoName == "None"

\* a <Link> element: its rel, type, name and href attributes
Link(rel, type, name, href) == [rel |-> rel, type |-> type, name |-> name, href |-> href]

\* get_links(resource, rel, media_type, name) over the Link children of a
\* document, in document order
RECURSIVE get_links(_, _, _, _)
get_links(links, rel, media_type, name) ==
    IF Len(links) = 0 THEN <<>>
    ELSE LET link == links[1]
             rest == get_links(Tail(links), rel, media_type, name)
         IN IF name # NoName /\ link.name # name THEN rest
            ELSE IF link.rel = rel
                    /\ \/ media_type = NoType /\ link.type = NoType
                       \/ media_type # NoType /\ link.type = media_type
                 THEN <<link>> \o rest
            ELSE rest

\* find_link returning the first of several matches
find_link_first_match(links, rel, media_type, fail_if_absent, name) ==
    LET found == get_links(links, rel, media_type, name)
    IN IF Len(found) = 0
       THEN [exc |-> IF fail_if_absent THEN "MissingLinkException" ELSE "ok",
             link |-> Link("None", NoType, NoName, "None"), present |-> FALSE]
       ELSE [exc |-> "ok", link |-> found[1], present |-> TRUE]

\* find_link(resource, rel, media_type, fail_if_absent, name)
find_link(links, rel, media_type, fail_if_absent, name) ==
    LET found == get_links(links, rel, media_type, name)
    IN IF Len(found) = 0
       THEN [exc |-> IF fail_if_absent THEN "MissingLinkException" ELSE "ok",
             link |-> Link("None", NoType, NoName, "None"), present |-> FALSE]
       ELSE IF Len(found) = 1
       THEN [exc |-> "ok", link |-> found[1], present |-> TRUE]
       ELSE [exc |-> "MultipleLinksException",
             link |-> Link("None", NoType, NoName, "None"), present |-> FALSE]

\* _WellKnownEndpoint: name, relation, media type.  OPENAPI carries the enum
\* member EntityType.JSON, not its string value
WellKnownEndpoints ==
    <<[name |-> "LOGGED_IN_ORG", rel |-> "down", type |-> "org+xml"],
      [name |-> "ORG_VDC", rel |-> "down", type |-> "vdc+xml"],
      [name |-> "ORG_NETWORK", rel |-> "down", type |-> "orgNetwork+xml"],
      [name |-> "ORG_CATALOG", rel |-> "down", type |-> "catalog+xml"],
      [name |-> "QUERY_LIST", rel |-> "down", type |-> "queryList+xml"],
      [name |-> "ADMIN", rel |-> "down", type |-> "admin.vcloud+xml"],
      [name |-> "API_EXTENSIBILITY", rel |-> "down:extensibility",
       type |-> "apiextensibility+xml"],
      [name |-> "EXTENSION", rel |-> "down", type |-> "vmwExtension+xml"],
      [name |-> "ORG_LIST", rel |-> "down", type |-> "orgList+xml"],
      [name |-> "SNAPSHOT_CREATE", rel |-> "snapshot:create",
       type |-> "createSnapshotParams+xml"],
      [name |-> "OPENAPI", rel |-> "openapi", type |-> "<EntityType.JSON>"]>>

\* Client._session_endpoints is None
NoEndpoints == {<<"None", "None">>}

\* _get_session_endpoints(session): the loop over _WellKnownEndpoint from its
\* i-th member on, smap holding the (endpoint, href) pairs found so far; the
\* result is the map, or the exception of the first find_link that raises
RECURSIVE session_endpoints_from(_, _, _)
session_endpoints_from(links, i, smap) ==
    IF i > Len(WellKnownEndpoints) THEN [exc |-> "ok", smap |-> smap]
    ELSE LET e == WellKnownEndpoints[i]
             f == find_link(links, e.rel, e.type, FALSE, NoName)
         IN IF f.exc # "ok" THEN [exc |-> f.exc, smap |-> {}]
            ELSE session_endpoints_from(links, i + 1,
                     IF f.present THEN smap \cup {<<e.name, f.link.href>>}
                     ELSE smap)

get_session_endpoints(doc) == session_endpoints_from(doc.links, 1, {})

\* the mapping without its branch for 406
response_code_to_exception_without_406(sc) ==
    CASE sc = 400 -> "BadRequestException"
      [] sc = 401 -> "UnauthorizedException"
      [] sc = 403 -> "AccessForbiddenException"
      [] sc = 404 -> "NotFoundException"
      [] sc = 405 -> "MethodNotAllowedException"
      [] sc = 408 -> "RequestTimeoutException"
      [] sc = 409 -> "ConflictException"
      [] sc = 415 -> "UnsupportedMediaTypeException"
      [] sc = 416 -> "InvalidContentLengthException"
      [] sc = 500 -> "InternalServerException"
      [] OTHER -> "UnknownApiException"

\* Client._response_code_to_exception: the class it raises for a status code
response_code_to_exception(sc) ==
    CASE sc = 400 -> "BadRequestException"
      [] sc = 401 -> "UnauthorizedException"
      [] sc = 403 -> "AccessForbiddenException"
      [] sc = 404 -> "NotFoundException"
      [] sc = 405 -> "MethodNotAllowedException"
      [] sc = 406 -> "NotAcceptableException"
      [] sc = 408 -> "RequestTimeoutException"
      [] sc = 409 -> "ConflictException"
      [] sc = 415 -> "UnsupportedMediaTypeException"
      [] sc = 416 -> "InvalidContentLengthException"
      [] sc = 500 -> "InternalServerException"
      [] OTHER -> "UnknownApiException"

----------------------------------------------------------------------------
(* The session layer of Client *)

\* Client._vcloud_session is None
NoDoc == [none |-> TRUE, org |-> "None", links |-> <<>>]

SessionDoc(org, links) == [none |-> FALSE, org |-> org, links |-> links]

\* the fields of a Client object
Self ==
    [api_version |-> api_version, session |-> session,
     vcloud_session |-> vcloud_session,
     vcloud_auth_token |-> vcloud_auth_token,
     vcloud_access_token |-> vcloud_access_token,
     session_endpoints |-> session_endpoints, is_sysadmin |-> is_sysadmin]

\* how a call ended: the client, the connections, the exception ("ok" when
\* it returned), the connections it opened and the requests it sent
Outcome(s, cn, exc, opened, reqs) ==
    [self |-> s, conns |-> cn, exc |-> exc, opened |-> opened, reqs |-> reqs]

\* Client._update_is_sysadmin
update_is_sysadmin(s) ==
    [s EXCEPT !.is_sysadmin =
        IF s.vcloud_session.none THEN FALSE
        ELSE IF s.vcloud_session.org = "None" THEN FALSE
        ELSE lower(s.vcloud_session.org) = SYSTEM_ORG_NAME]

\* _objectify_response(response): None for an empty body, an exception for
\* a body that is not XML
objectify_response_exc(resp) ==
    IF resp.body = "garbage" THEN "XMLSyntaxError" ELSE "ok"

\* objectify.fromstring(response.content)
fromstring_exc(resp) ==
    IF resp.body \in {"garbage", "empty"} THEN "XMLSyntaxError" ELSE "ok"

\* close_and_raise without new_session.close()
close_and_raise_leaks(s, cn, c, exc, opened, reqs) ==
    Outcome(s, cn, exc, opened, reqs)

\* the except clause of set_credentials and of rehydrate_from_token:
\* new_session.close(); raise
close_and_raise(s, cn, c, exc, opened, reqs) ==
    Outcome(s, Close(cn, c), exc, opened, reqs)

\* self._session_endpoints = _get_session_endpoints(session), e being how
\* _get_session_endpoints ended
set_session_endpoints(s, cn, c, e, opened, reqs) ==
    IF e.exc # "ok" THEN close_and_raise(s, cn, c, e.exc, opened, reqs)
    ELSE Outcome([s EXCEPT !.session_endpoints = e.smap], cn, "ok", opened, reqs)

\* the statements of set_credentials and rehydrate_from_token that follow
\* self._session = new_session: token, session document, sysadmin flag and
\* endpoint map
establish_session(s, cn, c, token_exc, token, resp, opened, reqs) ==
    LET s1 == [s EXCEPT !.session = c]
    IN IF token_exc # "ok" THEN close_and_raise(s1, cn, c, token_exc, opened, reqs)
       ELSE LET s2 == [s1 EXCEPT !.vcloud_auth_token = token]
            IN IF fromstring_exc(resp) # "ok"
               THEN close_and_raise(s2, cn, c, fromstring_exc(resp), opened, reqs)
               ELSE set_session_endpoints(
                        update_is_sysadmin([s2 EXCEPT !.vcloud_session = resp.doc]),
                        cn, c, get_session_endpoints(resp.doc), opened, reqs)

\* the statements of rehydrate_from_token that follow
\* self._negotiate_api_version(), n being how the negotiation ended; resp
\* answers the GET of the session
rehydrate_negotiated(s, n, token, is_jwt_token, resp) ==
    LET s0 == [s EXCEPT !.api_version = n.api_version]
    IN IF n.exc # "ok" THEN Outcome(s0, n.conns, n.exc, n.opened, n.reqs)
       ELSE
       LET c == NewConn(n.conns)
           cn1 == Open(n.conns, c)
           opened == n.opened \cup {c}
           reqs == Append(n.reqs, Request("GET", "api/session", c))
           s1 == IF is_jwt_token THEN [s0 EXCEPT !.vcloud_access_token = token]
                 ELSE s0
       IN IF resp.kind = "transport_error"
          THEN close_and_raise(s1, cn1, c, "ConnectionError", opened, reqs)
          ELSE IF resp.status # 200
          THEN close_and_raise(s1, cn1, c,
                   IF objectify_response_exc(resp) # "ok"
                   THEN objectify_response_exc(resp)
                   ELSE response_code_to_exception(resp.status), opened, reqs)
          ELSE establish_session(s1, cn1, c, "ok", resp.token, resp, opened, reqs)

\* Client.rehydrate_from_token(token, is_jwt_token); vresp answers the
\* version discovery, resp the GET of the session
rehydrate_from_token(s, cn, token, is_jwt_token, vresp, resp) ==
    rehydrate_negotiated(s, negotiate_api_version(s.api_version, cn, vresp),
                         token, is_jwt_token, resp)

\* float(self._api_version) >= float(ApiVersion.VERSION_33.value)
use_cloudapi_login_endpoint(ver) == FloatTimes100(ver) >= FloatTimes100(VERSION_33)

\* the uri of the login with the organization compared as it is spelled
login_uri_exact_org(ver, org) ==
    IF use_cloudapi_login_endpoint(ver)
    THEN IF org = SYSTEM_ORG_NAME THEN "cloudapi/1.0.0/sessions/provider"
         ELSE "cloudapi/1.0.0/sessions"
    ELSE "api/sessions"

\* the uri set_credentials posts to
login_uri(ver, org) ==
    IF use_cloudapi_login_endpoint(ver)
    THEN IF lower(org) = SYSTEM_ORG_NAME THEN "cloudapi/1.0.0/sessions/provider"
         ELSE "cloudapi/1.0.0/sessions"
    ELSE "api/sessions"

\* the failure of a login whose parse of the error body is not guarded
login_failure_unguarded(resp) ==
    IF objectify_response_exc(resp) # "ok" THEN objectify_response_exc(resp)
    ELSE response_code_to_exception(resp.status)

\* what set_credentials raises for a status that is not 200: r is
\* response.json() or _objectify_response(response), None when the body is
\* empty or the parse raised; the mapped exception when r is not None,
\* VcdException('Login failed.') otherwise
login_failure(resp) ==
    IF resp.body = "parsed" THEN response_code_to_exception(resp.status)
    ELSE "VcdException"

\* the accept type of the login
login_accept_type(ver) ==
    IF use_cloudapi_login_endpoint(ver) THEN "application/json"
    ELSE "application/*+xml"

\* the POST of set_credentials: _do_request_prim('POST', uri, new_session,
\* accept_type=accept_type, auth=(f"{creds.user}@{creds.org}", creds.password))
login_request(ver, user, org, c) ==
    [method |-> "POST", uri |-> login_uri(ver, org), conn |-> c,
     accept_type |-> login_accept_type(ver), auth |-> <<user, "@", org>>]

\* how set_credentials ends after its call of rehydrate_from_token ended as
\* r: an exception of that call closes new_session and is raised again
login_rehydrated(r, c, opened, reqs) ==
    IF r.exc # "ok"
    THEN close_and_raise(r.self, r.conns, c, r.exc,
                         opened \cup r.opened, reqs \o r.reqs)
    ELSE Outcome(r.self, r.conns, "ok", opened \cup r.opened, reqs \o r.reqs)

\* the statements of set_credentials that follow
\* self._negotiate_api_version(), n being how the negotiation ended
login_negotiated(s, n, user, org, vresp, resp, resp2) ==
    LET s0 == [s EXCEPT !.api_version = n.api_version]
    IN IF n.exc # "ok" THEN Outcome(s0, n.conns, n.exc, n.opened, n.reqs)
       ELSE
       LET c == NewConn(n.conns)
           cn1 == Open(n.conns, c)
           opened == n.opened \cup {c}
           cloudapi == use_cloudapi_login_endpoint(s0.api_version)
           reqs == Append(n.reqs, login_request(s0.api_version, user, org, c))
       IN IF resp.kind = "transport_error"
          THEN close_and_raise(s0, cn1, c, "ConnectionError", opened, reqs)
          ELSE IF resp.status # 200
          THEN close_and_raise(s0, cn1, c, login_failure(resp), opened, reqs)
          ELSE IF cloudapi
          THEN IF resp.token = NoToken
               THEN close_and_raise(s0, cn1, c, "KeyError", opened, reqs)
               ELSE login_rehydrated(
                        rehydrate_from_token(s0, Close(cn1, c), resp.token,
                                             TRUE, vresp, resp2),
                        c, opened, reqs)
          ELSE establish_session(s0, cn1, c,
                   IF resp.token = NoToken THEN "KeyError" ELSE "ok",
                   resp.token, resp, opened, reqs)

\* Client.set_credentials(creds); vresp answers the version discovery, resp
\* the POST of the login, resp2 the GET of the session that follows a
\* cloudapi login
set_credentials(s, cn, user, org, vresp, resp, resp2) ==
    login_negotiated(s, negotiate_api_version(s.api_version, cn, vresp),
                     user, org, vresp, resp, resp2)

\* Client._do_request on the session connection: the exception it raises
do_request_exc(resp) ==
    IF resp.kind = "transport_error" THEN "ConnectionError"
    ELSE IF objectify_response_exc(resp) # "ok" THEN objectify_response_exc(resp)
    ELSE IF resp.status \in {200, 201, 202, 204} THEN "ok"
    ELSE response_code_to_exception(resp.status)

\* clear_session without self._session = None
clear_session_keeps_connection(s) ==
    [s EXCEPT !.vcloud_session = NoDoc,
              !.vcloud_access_token = NoToken, !.vcloud_auth_token = NoToken]

\* the session state logout sets to None
clear_session(s) ==
    [s EXCEPT !.session = 0, !.vcloud_session = NoDoc,
              !.vcloud_access_token = NoToken, !.vcloud_auth_token = NoToken]

\* a logout whose DELETE raised closing and clearing the session before
\* the exception leaves it
logout_raises_cleared(s, cn, exc, reqs) ==
    Outcome(clear_session(s), Close(cn, s.session), exc, {}, reqs)

\* logout when self._do_request('DELETE', uri) raises: the statements after
\* it are not reached
logout_raises(s, cn, exc, reqs) == Outcome(s, cn, exc, {}, reqs)

\* a logout that sets self._api_version to None with the session state
logout_forgets_version(s, cn, resp) ==
    IF s.session = 0 THEN Outcome(s, cn, "ok", {}, <<>>)
    ELSE LET c == s.session
             cn1 == Open(cn, c)
             reqs == <<Request("DELETE", "api/session", c)>>
             exc == do_request_exc(resp)
         IN IF exc # "ok" THEN logout_raises(s, cn1, exc, reqs)
            ELSE Outcome([clear_session(s) EXCEPT !.api_version = None],
                         Close(cn1, c), "ok", {}, reqs)

\* Client.logout(); resp answers the DELETE of the session
logout(s, cn, resp) ==
    IF s.session = 0 THEN Outcome(s, cn, "ok", {}, <<>>)
    ELSE LET c == s.session
             \* a request on a closed requests.Session opens sockets again
             cn1 == Open(cn, c)
             reqs == <<Request("DELETE", "api/session", c)>>
             exc == do_request_exc(resp)
         IN IF exc # "ok" THEN logout_raises(s, cn1, exc, reqs)
            ELSE Outcome(clear_session(s), Close(cn1, c), "ok", {}, reqs)


----------------------------------------------------------------------------
(* The calls on a client *)

\* the record of a call: what was called, how it ended ("ok" or the
\* exception), the connections it opened, the requests it sent, the active
\* version list and the VersionInfo list of a version discovery, whether the
\* client had a version and a session when the call started, and the call
\* before it
CallRecord(op, r, active, versions) ==
    [op |-> op, exc |-> r.exc, opened |-> r.opened, reqs |-> r.reqs,
     active |-> active, versions |-> versions,
     had_version |-> api_version # None, had_session |-> session # 0,
     prev_op |-> call.op]

NoCall ==
    [op |-> "init", exc |-> "ok", opened |-> {}, reqs |-> <<>>,
     active |-> <<>>, versions |-> <<>>,
     had_version |-> FALSE, had_session |-> FALSE,
     prev_op |-> "init"]

SetSelf(s) ==
    /\ api_version' = s.api_version
    /\ session' = s.session
    /\ vcloud_session' = s.vcloud_session
    /\ vcloud_auth_token' = s.vcloud_auth_token
    /\ vcloud_access_token' = s.vcloud_access_token
    /\ session_endpoints' = s.session_endpoints
    /\ is_sysadmin' = s.is_sysadmin

\* Client.__init__(uri, api_version)
SetSelfInit(ver) ==
    /\ api_version = ver
    /\ session = 0
    /\ vcloud_session = NoDoc
    /\ vcloud_auth_token = NoToken
    /\ vcloud_access_token = NoToken
    /\ session_endpoints = NoEndpoints
    /\ is_sysadmin = FALSE

\* the connections when a call starts
Conns == ForgetClosed(conns, session)

\* the versions a client pins at construction: none, one the library does
\* not list, one below and one above the cloudapi login threshold
PinnedVersions == {None, V27, V29, V36}

InitClient ==
    /\ \E ver \in PinnedVersions : SetSelfInit(ver)
    /\ conns = [i \in ConnIds |-> "free"]
    /\ call = NoCall
    /\ calls = 0

UpIdle == [pc |-> "idle", attempt |-> 0, responses |-> <<>>, exc |-> "ok"]

NoTask == [status |-> "None", Error |-> "None"]

TmIdle ==
    [pc |-> "idle", op |-> "none", start_time |-> 0, now |-> 0, timeout |-> 0,
     poll_frequency |-> 0, fail_on |-> {}, targets |-> {}, callback |-> FALSE,
     seen |-> <<>>, callbacks |-> <<>>, exc |-> "ok", payload |-> "None",
     result |-> NoTask]

\* no link lookup, no request and no query yet
LkIdle == [links |-> <<>>, op |-> "none"]

RqIdle == [op |-> "none"]

QrIdle == [pc |-> "none"]

WkIdle == [op |-> "none"]

DlIdle == [op |-> "none"]

OthersIdle == lk = LkIdle /\ rq = RqIdle /\ qr = QrIdle /\ wk = WkIdle /\ dl = DlIdle

----------------------------------------------------------------------------
(* Version discovery on a new client *)

NegotiateApiVersion(vresp) ==
    /\ calls = 0
    /\ LET n == negotiate_api_version(api_version, Conns, vresp)
       IN /\ SetSelf([Self EXCEPT !.api_version = n.api_version])
          /\ conns' = n.conns
          /\ call' = CallRecord("negotiate_api_version", n, n.active,
                                IF api_version = None THEN vresp.versions ELSE <<>>)
    /\ calls' = calls + 1
    /\ UNCHANGED <<up, tm, lk, rq, qr, wk, dl>>

GetSupportedVersionsList(vresp) ==
    /\ calls = 0
    /\ LET r == get_supported_versions_list(Conns, vresp)
       IN /\ SetSelf(Self)
          /\ conns' = r.conns
          /\ call' = CallRecord("get_supported_versions_list", r, r.value,
                                vresp.versions)
    /\ calls' = calls + 1
    /\ UNCHANGED <<up, tm, lk, rq, qr, wk, dl>>

SetHighestSupportedVersion(vresp) ==
    /\ calls = 0
    /\ LET r == set_highest_supported_version(api_version, Conns, vresp)
       IN /\ SetSelf([Self EXCEPT !.api_version = r.api_version])
          /\ conns' = r.conns
          /\ call' = CallRecord("set_highest_supported_version", r, r.active,
                                vresp.versions)
    /\ calls' = calls + 1
    /\ UNCHANGED <<up, tm, lk, rq, qr, wk, dl>>

InitVer == InitClient /\ up = UpIdle /\ tm = TmIdle /\ OthersIdle

NextVer ==
    \E vresp \in VersionResponses :
        \/ NegotiateApiVersion(vresp)
        \/ GetSupportedVersionsList(vresp)
        \/ SetHighestSupportedVersion(vresp)

SpecVer == InitVer /\ [][NextVer]_vars


----------------------------------------------------------------------------
(* Claims on version negotiation, checked under SpecVer *)

\* the versions of a /versions document that the server does not mark
\* deprecated and that the client supports
MutualVersions(versions) ==
    {versions[i].Version : i \in {j \in 1..Len(versions) :
        /\ ~MarkedDeprecated(versions[j])
        /\ versions[j].Version \in Range(API_CURRENT_VERSIONS)}}

\* the numerically highest version of a non-empty set
Highest(S) ==
    CHOOSE v \in S : \A w \in S : ~VersionLess(StrictVersion(v), StrictVersion(w))

\* a version discovery that the server answered with a version list
Discovered ==
    /\ call.op = "negotiate_api_version"
    /\ ~call.had_version
    /\ Len(call.versions) > 0

\* C1: with no version pinned, negotiation selects the numerically highest
\* version that is both in the server's non-deprecated list and in the
\* client's supported list; with no common version it fails and leaves the
\* client's version unset.
C1_HighestMutualVersion ==
    Discovered =>
        IF MutualVersions(call.versions) = {}
        THEN call.exc # "ok" /\ api_version = None
        ELSE call.exc = "ok" /\ api_version = Highest(MutualVersions(call.versions))

\* C2: neither the version chosen by negotiation nor any entry returned by
\* get_supported_versions_list is a version the server marks deprecated.
C2_NoDeprecatedVersion ==
    call.op \in {"negotiate_api_version", "get_supported_versions_list"} =>
        \A i \in 1..Len(call.versions) :
            MarkedDeprecated(call.versions[i]) =>
                /\ call.versions[i].Version \notin Range(call.active)
                /\ ~call.had_version
                       => api_version # call.versions[i].Version


----------------------------------------------------------------------------
(* Login, rehydrate and logout against a server *)

NoResponse == [kind |-> "none", status |-> 0, body |-> "empty", token |-> NoToken, doc |-> NoDoc]

VInfo(v, d) == [Version |-> v, deprecated |-> d, child |-> FALSE]

\* the answers to version discovery during a login
LoginVersionResponses ==
    {[kind |-> "transport_error", status |-> 0, versions |-> <<>>],
     [kind |-> "xml", status |-> 200,
      versions |-> <<VInfo(V27, "true"), VInfo(V36, "false")>>],
     [kind |-> "xml", status |-> 200, versions |-> <<VInfo(V29, "absent")>>],
     [kind |-> "xml", status |-> 200, versions |-> <<VInfo(V37, "false")>>]}

\* the session documents of the model: a system administrator's with four
\* links, an organisation user's, one with two links for one endpoint, one
\* without org attribute and links
SessionDocs ==
    {SessionDoc("System",
         <<Link("down", "org+xml", "System", "href_org"),
           Link("down", "admin.vcloud+xml", NoName, "href_admin"),
           Link("down", "queryList+xml", NoName, "href_query"),
           Link("openapi", "application/json", NoName, "href_cloudapi")>>),
     SessionDoc("acme", <<Link("down", "org+xml", "acme", "href_org")>>),
     SessionDoc("acme",
         <<Link("down", "queryList+xml", NoName, "href_query"),
           Link("down", "queryList+xml", NoName, "href_query2")>>),
     SessionDoc("None", <<>>)}

\* the answers to the POST of a login and to the GET of a session
SessionResponses ==
    {[kind |-> "transport_error", status |-> 0, body |-> "empty",
      token |-> NoToken, doc |-> NoDoc]}
    \cup {[kind |-> "response", status |-> 401, body |-> b, token |-> NoToken,
           doc |-> NoDoc] : b \in {"empty", "garbage", "parsed"}}
    \cup {[kind |-> "response", status |-> 200, body |-> b, token |-> t,
           doc |-> NoDoc] : b \in {"garbage"}, t \in {NoToken, "tokA"}}
    \cup {[kind |-> "response", status |-> 200, body |-> "parsed",
           token |-> "tokA", doc |-> d] : d \in SessionDocs}
    \cup {[kind |-> "response", status |-> 200, body |-> "parsed",
           token |-> NoToken,
           doc |-> SessionDoc("acme", <<Link("down", "org+xml", "acme", "href_org")>>)]}

\* the answers to the DELETE of a session
LogoutResponses ==
    {[kind |-> "transport_error", status |-> 0, body |-> "empty"],
     [kind |-> "response", status |-> 204, body |-> "empty"],
     [kind |-> "response", status |-> 200, body |-> "garbage"],
     [kind |-> "response", status |-> 401, body |-> "parsed"],
     [kind |-> "response", status |-> 500, body |-> "empty"]}

Orgs == {"System", "acme"}

Users == {"administrator"}

\* the responses a call can consume: version discovery only without a
\* version, the GET of the session only after an accepted login
VersionResponsesFor(ver) ==
    IF ver = None THEN LoginVersionResponses
    ELSE {[kind |-> "none", status |-> 0, versions |-> <<>>]}

SecondResponsesFor(ver, vresp, resp) ==
    IF /\ resp.kind = "response" /\ resp.status = 200 /\ resp.token # NoToken
       /\ LET n == negotiate_api_version(ver, Conns, vresp)
          IN n.exc = "ok" /\ use_cloudapi_login_endpoint(n.api_version)
    THEN SessionResponses ELSE {NoResponse}

Finish(op, r) ==
    /\ SetSelf(r.self)
    /\ conns' = r.conns
    /\ call' = CallRecord(op, r, <<>>, <<>>)
    /\ calls' = calls + 1
    /\ UNCHANGED <<up, tm, lk, rq, qr, wk, dl>>

\* the credentials of a login, kept with the record of the call
WithCreds(c, user, org) == [creds |-> [user |-> user, org |-> org]] @@ c

FinishLogin(r, user, org) ==
    /\ SetSelf(r.self)
    /\ conns' = r.conns
    /\ call' = WithCreds(CallRecord("set_credentials", r, <<>>, <<>>), user, org)
    /\ calls' = calls + 1
    /\ UNCHANGED <<up, tm, lk, rq, qr, wk, dl>>

SetCredentials(user, org, vresp, resp, resp2) ==
    /\ calls < MaxCalls
    /\ HasFreeConn(Conns, 3)
    /\ FinishLogin(set_credentials(Self, Conns, user, org, vresp, resp, resp2),
                   user, org)

RehydrateFromToken(token, is_jwt_token, vresp, resp) ==
    /\ calls < MaxCalls
    /\ HasFreeConn(Conns, 2)
    /\ Finish("rehydrate_from_token",
              rehydrate_from_token(Self, Conns, token, is_jwt_token, vresp, resp))

Logout(resp) ==
    /\ calls < MaxCalls
    /\ Finish("logout", logout(Self, Conns, resp))

FinishHighest(r) ==
    /\ SetSelf([Self EXCEPT !.api_version = r.api_version])
    /\ conns' = r.conns
    /\ call' = CallRecord("set_highest_supported_version", r, r.active, <<>>)
    /\ calls' = calls + 1
    /\ UNCHANGED <<up, tm, lk, rq, qr, wk, dl>>

\* Client.set_highest_supported_version() on a client that logs in and out
SetHighestBetweenLogins(vresp) ==
    /\ calls < MaxCalls
    /\ HasFreeConn(Conns, 1)
    /\ FinishHighest(set_highest_supported_version(api_version, Conns, vresp))

\* the answers to the version discovery of set_highest_supported_version
HighestVersionResponses ==
    {r \in LoginVersionResponses :
        r.kind = "transport_error" \/ r.versions = <<VInfo(V37, "false")>>}

\* the versions a client of the session specification pins: none, one the
\* library does not list, one below and one above the /cloudapi threshold
LoginVersions == {None, V27, V29, V36}

InitSession ==
    /\ \E ver \in LoginVersions : SetSelfInit(ver)
    /\ conns = [i \in ConnIds |-> "free"]
    /\ call = NoCall
    /\ calls = 0
    /\ up = UpIdle
    /\ tm = TmIdle
    /\ OthersIdle

NextSession ==
    \/ \E user \in Users, org \in Orgs, vresp \in VersionResponsesFor(api_version),
          resp \in SessionResponses :
          \E resp2 \in SecondResponsesFor(api_version, vresp, resp) :
              SetCredentials(user, org, vresp, resp, resp2)
    \/ \E is_jwt_token \in BOOLEAN, vresp \in VersionResponsesFor(api_version),
          resp \in SessionResponses :
          RehydrateFromToken("tokB", is_jwt_token, vresp, resp)
    \/ \E resp \in LogoutResponses : Logout(resp)
    \/ \E vresp \in HighestVersionResponses : SetHighestBetweenLogins(vresp)

SpecSession == InitSession /\ [][NextSession]_vars


----------------------------------------------------------------------------
(* Claims on logout and on the release of connections, checked under       *)
(* SpecSession                                                             *)

selfVars == <<api_version, session, vcloud_session, vcloud_auth_token,
              vcloud_access_token, session_endpoints, is_sysadmin>>

\* the step is a call of logout()
LogoutStep == calls' = calls + 1 /\ call'.op = "logout"

NoConnectionOpened == \A c \in ConnIds : conns'[c] = "open" => conns[c] = "open"

\* the client holds the open connection of a session
LoggedIn == session # 0 /\ conns[session] = "open" /\ vcloud_session # NoDoc

\* logout() without a session: no error, no request, the client unchanged
LogoutWithoutSession ==
    /\ call'.exc = "ok"
    /\ call'.reqs = <<>>
    /\ UNCHANGED selfVars
    /\ NoConnectionOpened

\* a logout() with a session that returns sent exactly one DELETE, on the
\* session's connection, and left the client without session
LogoutEndsSession ==
    /\ call'.reqs = <<Request("DELETE", "api/session", session)>>
    /\ session' = 0
    /\ conns'[session] = "closed"

C9_LogoutClearsAllSessionState ==
    (call.op = "logout" /\ call.had_session /\ call.exc = "ok") =>
        /\ session = 0
        /\ vcloud_session = NoDoc
        /\ vcloud_auth_token = NoToken
        /\ vcloud_access_token = NoToken
        /\ session_endpoints \in {NoEndpoints, {}}
        /\ is_sysadmin = FALSE

\* C10: when set_credentials raises, every connection it opened is closed;
\* the connection of a version discovery is closed however the call ends.
C10_ConnectionsReleased ==
    /\ (call.op = "set_credentials" /\ call.exc # "ok") =>
           \A c \in call.opened : conns[c] = "closed"
    /\ \A i \in 1..Len(call.reqs) :
           call.reqs[i].uri = "api/versions" => conns[call.reqs[i].conn] = "closed"

\* a login that negotiated the version, was accepted and failed while the
\* endpoint map was built
C10_Witness ==
    /\ call.op = "set_credentials"
    /\ call.exc = "MultipleLinksException"
    /\ ~call.had_version
    /\ Cardinality(call.opened) >= 2

----------------------------------------------------------------------------
(* Claims on the version of a client that logs in, checked under           *)
(* SpecSession                                                             *)

\* the step is a call of set_credentials or of rehydrate_from_token
LoginOrRehydrateStep ==
    calls' = calls + 1 /\ call'.op \in {"set_credentials", "rehydrate_from_token"}

\* the call of the step sent no GET of the version list
NoDiscoverySent ==
    \A i \in 1..Len(call'.reqs) : call'.reqs[i].uri # "api/versions"

\* C31: a login or a rehydrate on a client whose version was pinned at
\* construction leaves the version as it is and sends no version discovery,
\* whether the library lists that version or not; the login endpoint is the
\* one of the pinned version.
C31_PinnedVersionUsedUnchanged ==
    [][(LoginOrRehydrateStep /\ api_version # None /\ call.op = "init") =>
          /\ api_version' = api_version
          /\ NoDiscoverySent
          /\ (call'.op = "set_credentials" /\ call'.reqs # <<>>) =>
                 call'.reqs[1].uri = login_uri(api_version, call'.creds.org)]_vars

\* a login with a pinned version that the library does not list succeeded
C31_Witness ==
    /\ call.op = "set_credentials"
    /\ call.prev_op = "init"
    /\ call.had_version
    /\ api_version = V27
    /\ V27 \notin Range(API_CURRENT_VERSIONS)
    /\ call.exc = "ok"
    /\ session # 0

\* the step is a call of set_credentials, rehydrate_from_token or logout
SessionCallStep ==
    /\ calls' = calls + 1
    /\ call'.op \in {"set_credentials", "rehydrate_from_token", "logout"}

\* C40: once the client has a version, pinned or negotiated, no login, no
\* rehydrate and no logout changes it or sends a version discovery, however
\* the call ends; a step that changes the version is a call of
\* set_highest_supported_version.
C40_VersionStableOnceSet ==
    [][/\ (SessionCallStep /\ api_version # None) =>
              (api_version' = api_version /\ NoDiscoverySent)
       /\ (api_version # None /\ api_version' # api_version) =>
              call'.op = "set_highest_supported_version"]_vars

\* a client that negotiated its version at the login and then logged out
\* and in again
C40_Witness ==
    /\ calls = 3
    /\ call.op = "set_credentials"
    /\ call.prev_op = "logout"
    /\ call.had_version
    /\ call.exc = "ok"
    /\ call.reqs # <<>>
    /\ api_version = V36
    /\ session # 0

\* set_highest_supported_version replaced the version of a client
C40_Replaced ==
    /\ call.op = "set_highest_supported_version"
    /\ call.had_version
    /\ call.exc = "ok"
    /\ api_version = V37

----------------------------------------------------------------------------
(* Claims on the session reference, the tokens and the connections,        *)
(* checked under SpecSession                                               *)

\* the call of the step raised
StepRaised == call'.exc # "ok"

\* C35: after set_credentials or rehydrate_from_token raises, the session
\* reference of the client is unset or is the open session the client held
\* before the call; it is never a closed connection.
C35_LoginAllOrNothing ==
    [][(LoginOrRehydrateStep /\ StepRaised) =>
          \/ session' = 0
          \/ session' = session /\ conns'[session'] = "open"]_vars

\* the GET of the session of the step was refused: no answer, or a status
\* that is not 200
IntrospectionRefused ==
    /\ call'.op = "rehydrate_from_token"
    /\ calls' = calls + 1
    /\ call'.reqs # <<>>
    /\ call'.reqs[Len(call'.reqs)].uri = "api/session"
    /\ call'.exc \in {"ConnectionError", response_code_to_exception(401)}

\* C36: a rehydrate_from_token whose GET of the session fails leaves the
\* access token and the auth token of the client as they were.
C36_RejectedTokenNotRetained ==
    [][IntrospectionRefused =>
          /\ vcloud_access_token' = vcloud_access_token
          /\ vcloud_auth_token' = vcloud_auth_token]_vars

\* C39: a logout() whose DELETE fails raises the error of the DELETE and
\* leaves the client as it was: the session connection is open, the session
\* document, the tokens and every other field are unchanged; any logout() on
\* a client with a session, so also the next one, sends the DELETE.
C39_FailedLogoutKeepsSession ==
    [][(LogoutStep /\ session # 0) =>
          /\ call'.reqs = <<Request("DELETE", "api/session", session)>>
          /\ StepRaised =>
                 /\ UNCHANGED selfVars
                 /\ conns'[session] = "open"
                 /\ call'.exc \in {"ConnectionError", "XMLSyntaxError",
                                   response_code_to_exception(401),
                                   response_code_to_exception(500)}]_vars

\* a logout() after a login and a logout() that raised: it sent the DELETE
\* again, and the server refused it again
C39_Witness ==
    /\ call.op = "logout" /\ call.prev_op = "logout"
    /\ call.had_session
    /\ call.exc = response_code_to_exception(500)
    /\ call.reqs # <<>>
    /\ LoggedIn
    /\ vcloud_auth_token # NoToken

\* C38: every connection that is open is the session connection of the
\* client: what the client opened before was closed.
C38_AtMostOneOpenConnection ==
    \A c \in ConnIds : conns[c] = "open" => c = session

----------------------------------------------------------------------------
(* Claims on the login, checked under SpecSession *)

\* the last call was set_credentials
LoginCall == call.op = "set_credentials" /\ "creds" \in DOMAIN call

\* the POSTs among the requests of the last call
LoginPosts == {i \in 1..Len(call.reqs) : call.reqs[i].method = "POST"}

\* the version of the client is at or above the threshold 33.0
AtCloudApiThreshold == ~VersionLess(StrictVersion(api_version), <<33, 0, 0>>)

\* C21: the POST of a login goes to cloudapi/1.0.0/sessions with the JSON
\* accept type when the negotiated version is at or above 33.0, with
\* /provider appended exactly when the organization is the system
\* organization in any spelling of its case, and to api/sessions with the XML
\* accept type below 33.0; its basic auth principal is user@org.
C21_LoginEndpointByVersion ==
    LoginCall =>
        \A i \in LoginPosts :
            /\ call.reqs[i].auth = <<call.creds.user, "@", call.creds.org>>
            /\ IF AtCloudApiThreshold
               THEN /\ call.reqs[i].accept_type = "application/json"
                    /\ call.reqs[i].uri =
                           IF call.creds.org \in {"system", "System", "SYSTEM"}
                           THEN "cloudapi/1.0.0/sessions/provider"
                           ELSE "cloudapi/1.0.0/sessions"
               ELSE /\ call.reqs[i].accept_type = "application/*+xml"
                    /\ call.reqs[i].uri = "api/sessions"

\* the table of well-known endpoints: the relation and the content type of
\* the link of each
EndpointTable ==
    {<<"LOGGED_IN_ORG", "down", "org+xml">>, <<"ORG_VDC", "down", "vdc+xml">>,
     <<"ORG_NETWORK", "down", "orgNetwork+xml">>,
     <<"ORG_CATALOG", "down", "catalog+xml">>,
     <<"QUERY_LIST", "down", "queryList+xml">>,
     <<"ADMIN", "down", "admin.vcloud+xml">>,
     <<"API_EXTENSIBILITY", "down:extensibility", "apiextensibility+xml">>,
     <<"EXTENSION", "down", "vmwExtension+xml">>,
     <<"ORG_LIST", "down", "orgList+xml">>,
     <<"SNAPSHOT_CREATE", "snapshot:create", "createSnapshotParams+xml">>,
     <<"OPENAPI", "openapi", "application/json">>}

\* the links of the session document with the relation and content type of
\* an entry of the table
LinksOf(e) ==
    {i \in 1..Len(vcloud_session.links) :
        /\ vcloud_session.links[i].rel = e[2]
        /\ vcloud_session.links[i].type = e[3]}

\* the last call was a login or a rehydrate and it returned
SessionEstablished ==
    /\ call.op \in {"set_credentials", "rehydrate_from_token"}
    /\ call.exc = "ok"

\* C23: after a successful login or rehydrate the endpoint map has, for each
\* entry of the table, the target of the matching link of the session
\* document when there is one and no entry when there is none; no login or
\* rehydrate fails for a missing link.
C23_EndpointMapFromDocument ==
    /\ SessionEstablished =>
           \A e \in EndpointTable :
               /\ LinksOf(e) # {} =>
                      \E i \in LinksOf(e) :
                          <<e[1], vcloud_session.links[i].href>> \in session_endpoints
               /\ LinksOf(e) = {} =>
                      \A entry \in session_endpoints : entry[1] # e[1]
    /\ call.op \in {"set_credentials", "rehydrate_from_token"} =>
           call.exc # "MissingLinkException"

\* a login of the system organization, spelled System, at a negotiated
\* version above the threshold
C21_Witness ==
    /\ LoginCall
    /\ ~call.had_version
    /\ call.creds.org = "System"
    /\ \E i \in LoginPosts : call.reqs[i].uri = "cloudapi/1.0.0/sessions/provider"


----------------------------------------------------------------------------
(* Client.upload_fragment: the retry loop, one PUT per step *)

UPLOAD_FRAGMENT_MAX_RETRIES == 5

\* the fields of a new Client that logged in through the legacy endpoint
LoggedInClient ==
    set_credentials(
        [api_version |-> V29, session |-> 0, vcloud_session |-> NoDoc,
         vcloud_auth_token |-> NoToken, vcloud_access_token |-> NoToken,
         session_endpoints |-> NoEndpoints, is_sysadmin |-> FALSE],
        [i \in ConnIds |-> "free"], "administrator", "acme",
        [kind |-> "none", status |-> 0, versions |-> <<>>],
        [kind |-> "response", status |-> 200, body |-> "parsed", token |-> "tokA",
         doc |-> SessionDoc("acme", <<Link("down", "org+xml", "acme", "href_org")>>)],
        NoResponse)

InitLoggedIn ==
    /\ api_version = LoggedInClient.self.api_version
    /\ session = LoggedInClient.self.session
    /\ vcloud_session = LoggedInClient.self.vcloud_session
    /\ vcloud_auth_token = LoggedInClient.self.vcloud_auth_token
    /\ vcloud_access_token = LoggedInClient.self.vcloud_access_token
    /\ session_endpoints = LoggedInClient.self.session_endpoints
    /\ is_sysadmin = LoggedInClient.self.is_sysadmin
    /\ conns = LoggedInClient.conns
    /\ call = NoCall
    /\ calls = 0

\* the answers to the PUT of a fragment
UploadStatuses == {200, 400, 401, 403, 416, 500, 503}

UploadResponses ==
    {[kind |-> "transport_error", status |-> 0]}
    \cup {[kind |-> "response", status |-> sc] : sc \in UploadStatuses}

\* the exception an attempt ends with, "ok" for status 200
attempt_exc(resp) ==
    IF resp.kind = "transport_error" THEN "ConnectionError"
    ELSE IF resp.status # 200 THEN response_code_to_exception(resp.status)
    ELSE "ok"

\* the handler catching only the exception of status 416
caught_only_range_error(resp) == resp.kind = "response" /\ resp.status = 416

\* except VcdResponseException: the exception of a non-200 status is caught
\* ("on receiving non 200 status, we will retry the upload"), any other
\* exception is not
caught_by_retry_handler(resp) == resp.kind = "response" /\ resp.status # 200

\* retry_upload without the test for the last attempt
retry_upload_unbounded(resp, attempt) == caught_by_retry_handler(resp)

\* the caught exception is retried if this is not the last attempt
retry_upload(resp, attempt) ==
    caught_by_retry_handler(resp) /\ attempt < UPLOAD_FRAGMENT_MAX_RETRIES

\* the call of upload_fragment: the loop starts with attempt 1
UploadFragment ==
    /\ up.pc \in {"idle", "returned", "raised"}
    /\ session # 0
    /\ up' = [pc |-> "put", attempt |-> 1, responses |-> <<>>, exc |-> "ok"]
    /\ UNCHANGED <<clientVars, tm, lk, rq, qr, wk, dl>>

\* one iteration of the loop: the PUT and what follows its answer
UploadAttempt(resp) ==
    /\ up.pc = "put"
    /\ LET exc == attempt_exc(resp)
           responses == Append(up.responses, resp)
       IN up' = IF exc = "ok"
                THEN [up EXCEPT !.pc = "returned", !.responses = responses]
                ELSE IF retry_upload(resp, up.attempt)
                THEN [up EXCEPT !.attempt = @ + 1, !.responses = responses]
                ELSE [up EXCEPT !.pc = "raised", !.responses = responses,
                                !.exc = exc]
    /\ UNCHANGED <<clientVars, tm, lk, rq, qr, wk, dl>>

InitUpload == InitLoggedIn /\ up = UpIdle /\ tm = TmIdle /\ OthersIdle

NextUpload ==
    \/ UploadFragment
    \/ \E resp \in UploadResponses : UploadAttempt(resp)

SpecUpload == InitUpload /\ [][NextUpload]_vars


----------------------------------------------------------------------------
(* Claims on upload_fragment, checked under SpecUpload *)

StatusError(r) == r.kind = "response" /\ r.status # 200

\* C6: upload_fragment sends at most 5 PUTs for a fragment; it returns on
\* the first PUT answered with 200 (after up to four failures); while the
\* answers are the transient status 416 it tries again, and when all five
\* PUTs fail it raises the error mapped from the fifth answer.
C6_AtMostFiveAttempts ==
    LET rs == up.responses
        n == Len(up.responses)
    IN /\ n <= UPLOAD_FRAGMENT_MAX_RETRIES
       /\ \A i \in 1..n :
              (rs[i].kind = "response" /\ rs[i].status = 200) =>
                  i = n /\ up.pc = "returned"
       /\ up.pc = "returned" => n > 0 /\ rs[n].status = 200
       /\ (n > 0 /\ n < UPLOAD_FRAGMENT_MAX_RETRIES
              /\ \A i \in 1..n : rs[i].status = 416) => up.pc = "put"
       /\ (n = UPLOAD_FRAGMENT_MAX_RETRIES /\ \A i \in 1..n : StatusError(rs[i])) =>
              /\ up.pc = "raised"
              /\ up.exc = response_code_to_exception(rs[n].status)

\* four answers 416, then 200: the fifth attempt succeeds
C6_Witness ==
    /\ Len(up.responses) = 5
    /\ \A i \in 1..4 : up.responses[i].status = 416
    /\ up.responses[5].status = 200
    /\ up.pc = "returned"

\* C7 as stated: an answer 400, 401, 403 or 500 ends the call with its
\* mapped error and no further PUT follows it.
C7_OtherStatusNotRetried ==
    \A i \in 1..Len(up.responses) :
        (up.responses[i].kind = "response"
            /\ up.responses[i].status \in {400, 401, 403, 500}) =>
            /\ i = Len(up.responses)
            /\ up.pc = "raised"
            /\ up.exc = response_code_to_exception(up.responses[i].status)

\* C7, amended: every non-200 answer is retried, whichever error class it
\* maps to: before the fifth attempt it never ends the call.  Only an
\* exception that is not mapped from a status (a transport error of the PUT)
\* ends the call at the attempt that raised it.
C7_EveryStatusErrorRetried ==
    \A i \in 1..Len(up.responses) :
        /\ (StatusError(up.responses[i]) /\ i < UPLOAD_FRAGMENT_MAX_RETRIES) =>
               (i < Len(up.responses) \/ up.pc = "put")
        /\ up.responses[i].kind = "transport_error" =>
               /\ i = Len(up.responses)
               /\ up.pc = "raised"
               /\ up.exc = "ConnectionError"

\* a 400 that was retried, and a transport error that was not
C7_Witness ==
    /\ Len(up.responses) = 2
    /\ up.responses[1].status = 400
    /\ up.responses[2].kind = "transport_error"
    /\ up.pc = "raised"


----------------------------------------------------------------------------
(* _TaskMonitor.wait_for_status: the polling loop, one poll per step *)

\* TaskStatus: the value of each member
TaskStatusValue(m) ==
    CASE m = "QUEUED" -> "queued"
      [] m = "PRE_RUNNING" -> "preRunning"
      [] m = "RUNNING" -> "running"
      [] m = "SUCCESS" -> "success"
      [] m = "ERROR" -> "error"
      [] m = "CANCELED" -> "canceled"
      [] m = "ABORTED" -> "aborted"

\* the task documents a poll can fetch: the status attribute and the Error
\* child ("None" when the task has none)
TaskDocs ==
    {[status |-> "queued", Error |-> "None"],
     [status |-> "running", Error |-> "None"],
     [status |-> "Success", Error |-> "None"],
     [status |-> "error", Error |-> "err1"],
     [status |-> "canceled", Error |-> "None"],
     [status |-> "aborted", Error |-> "err2"]}

PollAnswers ==
    {[kind |-> "transport_error", task |-> NoTask]}
    \cup {[kind |-> "task", task |-> t] : t \in TaskDocs}

\* the arguments of the calls of the model
Timeouts == {-1, 0, 1}
PollFrequencies == {0, 1}
FailOnLists == {{}, {"ERROR"}, {"ABORTED", "CANCELED", "ERROR"}}
TargetLists == {{"SUCCESS"}, {"SUCCESS", "ERROR"}}

\* the time a fetch of the task can take, in clock ticks
FetchTimes == {0, 1}

\* status_in comparing the status as the server wrote it
status_in_case_sensitive(task, statuses) ==
    \E m \in statuses : task.status = TaskStatusValue(m)

\* task_status == status.value.lower() for a status of the list
status_in(task, statuses) ==
    \E m \in statuses : lower(task.status) = lower(TaskStatusValue(m))

\* start_time - datetime.now() > timedelta(seconds=timeout)
timed_out(start_time, now, timeout) == start_time - now > timeout

\* the monitor at the first poll of a call
Waiting(op, timeout, poll_frequency, fail_on, targets, callback) ==
    [pc |-> "poll", op |-> op, start_time |-> tm.now, now |-> tm.now,
     timeout |-> timeout, poll_frequency |-> poll_frequency,
     fail_on |-> fail_on, targets |-> targets, callback |-> callback,
     seen |-> <<>>, callbacks |-> <<>>, exc |-> "ok",
     payload |-> "None", result |-> NoTask]

\* the call of wait_for_status up to the loop
WaitForStatus(timeout, poll_frequency, fail_on, targets, callback) ==
    /\ tm.pc \in {"idle", "returned", "raised"}
    /\ session # 0
    /\ tm' = Waiting("wait_for_status", timeout, poll_frequency, fail_on,
                     targets, callback)
    /\ UNCHANGED <<clientVars, up, lk, rq, qr, wk, dl>>

\* the fail-on statuses wait_for_status has when the caller gives none
DEFAULT_FAIL_ON == {"ABORTED", "CANCELED", "ERROR"}

\* the fail-on statuses wait_for_success passes on
wait_for_success_fail_on == {"ERROR"}

\* wait_for_success: wait_for_status with [TaskStatus.ERROR] and
\* [TaskStatus.SUCCESS]
WaitForSuccess(timeout, poll_frequency, callback) ==
    /\ tm.pc \in {"idle", "returned", "raised"}
    /\ session # 0
    /\ tm' = Waiting("wait_for_success", timeout, poll_frequency,
                     wait_for_success_fail_on, {"SUCCESS"}, callback)
    /\ UNCHANGED <<clientVars, up, lk, rq, qr, wk, dl>>

\* how an iteration ends when the fail-on statuses are tested first
poll_tests_fail_on_first(task, t, now) ==
    IF status_in(task, t.fail_on)
    THEN IF task.Error = "None"
         THEN [t EXCEPT !.pc = "raised", !.exc = "AttributeError"]
         ELSE [t EXCEPT !.pc = "raised", !.exc = "VcdTaskException",
                        !.payload = task.Error]
    ELSE IF status_in(task, t.targets)
    THEN [t EXCEPT !.pc = "returned", !.result = task]
    ELSE IF timed_out(t.start_time, now, t.timeout)
    THEN [t EXCEPT !.pc = "raised", !.exc = "TaskTimeoutException"]
    ELSE [t EXCEPT !.pc = "sleep"]

\* how an iteration ends once the task is fetched and the callback called:
\* the target statuses, the fail-on statuses, the timeout, in this order
poll_tests(task, t, now) ==
    IF status_in(task, t.targets)
    THEN [t EXCEPT !.pc = "returned", !.result = task]
    ELSE IF status_in(task, t.fail_on)
    THEN IF task.Error = "None"
         THEN [t EXCEPT !.pc = "raised", !.exc = "AttributeError"]
         ELSE [t EXCEPT !.pc = "raised", !.exc = "VcdTaskException",
                        !.payload = task.Error]
    ELSE IF timed_out(t.start_time, now, t.timeout)
    THEN [t EXCEPT !.pc = "raised", !.exc = "TaskTimeoutException"]
    ELSE [t EXCEPT !.pc = "sleep"]

\* an iteration whose fetch raised going on to the sleep
fetch_retried(t) == [t EXCEPT !.pc = "sleep"]

\* an iteration whose fetch raised: _get_task_status is called outside any
\* try, its exception leaves wait_for_status
fetch_raises(t) == [t EXCEPT !.pc = "raised", !.exc = "ConnectionError"]

\* one iteration of the loop, from the fetch of the task to the timeout test
Poll(answer, dt) ==
    /\ tm.pc = "poll"
    /\ Len(tm.seen) < MaxPolls
    /\ tm.now + dt <= MaxTime
    /\ LET now == tm.now + dt
           task == answer.task
           t1 == [tm EXCEPT !.now = now]
           t2 == [t1 EXCEPT !.seen = Append(@, task),
                            !.callbacks = IF tm.callback THEN Append(@, task) ELSE @]
       IN tm' = IF answer.kind = "transport_error" THEN fetch_raises(t1)
                ELSE poll_tests(task, t2, now)
    /\ UNCHANGED <<clientVars, up, lk, rq, qr, wk, dl>>

\* time.sleep(poll_frequency)
Sleep ==
    /\ tm.pc = "sleep"
    /\ tm.now + tm.poll_frequency <= MaxTime
    /\ tm' = [tm EXCEPT !.pc = "poll", !.now = @ + tm.poll_frequency]
    /\ UNCHANGED <<clientVars, up, lk, rq, qr, wk, dl>>

InitTask == InitLoggedIn /\ up = UpIdle /\ tm = TmIdle /\ OthersIdle

NextTask ==
    \/ \E timeout \in Timeouts, poll_frequency \in PollFrequencies,
          fail_on \in FailOnLists, targets \in TargetLists, callback \in BOOLEAN :
          WaitForStatus(timeout, poll_frequency, fail_on, targets, callback)
    \/ \E timeout \in Timeouts, poll_frequency \in PollFrequencies,
          callback \in BOOLEAN :
          WaitForSuccess(timeout, poll_frequency, callback)
    \/ \E answer \in PollAnswers, dt \in FetchTimes : Poll(answer, dt)
    \/ Sleep

SpecTask == InitTask /\ [][NextTask]_vars


----------------------------------------------------------------------------
(* Claims on wait_for_status, checked under SpecTask *)

\* the status of the task equals, whatever the case of the letters, one of
\* the target statuses or one of the fail-on statuses of the call
IsTarget(t) == lower(t.status) \in {lower(TaskStatusValue(m)) : m \in tm.targets}
IsFailOn(t) == lower(t.status) \in {lower(TaskStatusValue(m)) : m \in tm.fail_on}

\* C3: when the status of a poll is neither a target nor a fail-on status
\* and more than timeout (a duration, so not negative) has passed since the
\* call started, wait_for_status raises TaskTimeout: it never goes to sleep
\* for another poll then.
C3_TimeoutRaised ==
    (tm.pc = "sleep" /\ tm.timeout >= 0) => tm.now - tm.start_time <= tm.timeout

\* C4: a poll that observes a target status ends the call: it is the last
\* poll and wait_for_status returns the task that poll fetched.
C4_ReturnsOnTarget ==
    \A i \in 1..Len(tm.seen) :
        IsTarget(tm.seen[i]) =>
            /\ i = Len(tm.seen)
            /\ tm.pc = "returned"
            /\ tm.result = tm.seen[i]

\* queued, running, success over three polls: returned on the third
C4_Witness ==
    /\ Len(tm.seen) = 3
    /\ tm.seen[1].status = "queued"
    /\ tm.seen[2].status = "running"
    /\ lower(tm.seen[3].status) = "success"
    /\ tm.pc = "returned"
    /\ tm.result = tm.seen[3]

\* C5: a poll that observes a fail-on status that is no target status ends
\* the call: it is the last poll and wait_for_status raises VcdTaskException
\* with the Error of that task.
C5_RaisesTaskFailed ==
    \A i \in 1..Len(tm.seen) :
        (IsFailOn(tm.seen[i]) /\ ~IsTarget(tm.seen[i])) =>
            /\ i = Len(tm.seen)
            /\ tm.pc = "raised"
            /\ tm.exc = "VcdTaskException"
            /\ tm.payload = tm.seen[i].Error


----------------------------------------------------------------------------
(* get_links and find_link on a document *)

\* a child element of a document: its tag and its rel, type, name and href
\* attributes
Element(tag, attrs) == [tag |-> tag, attrs |-> attrs]

\* without the tag test of findall
findall_any_tag(children) == [i \in 1..Len(children) |-> children[i].attrs]

\* resource.findall('{http://www.vmware.com/vcloud/v1.5}Link'): the direct
\* children with the tag Link, in document order
findall_Link(children) ==
    LET Links == SelectSeq(children, LAMBDA e : e.tag = "Link")
    IN [i \in 1..Len(Links) |-> Links[i].attrs]

\* the href of the i-th child of a document
HrefOf(i) ==
    CASE i = 1 -> "href_1" [] i = 2 -> "href_2" [] i = 3 -> "href_3"
      [] i = 4 -> "href_4" [] OTHER -> "href_5"

LinkRels == {"down", "up"}
LinkTypes == {NoType, "org+xml"}
LinkNames == {NoName, "acme"}

\* the children of the documents: Link elements and an element of another
\* tag that carries the same attributes
ChildShapes ==
    [tag : {"Link"}, rel : LinkRels, type : LinkTypes, name : LinkNames]
    \cup {[tag |-> "Record", rel |-> "down", type |-> "org+xml", name |-> "acme"]}

\* the documents with up to MaxChildren children
LinkDocs ==
    {[i \in 1..Len(d) |->
         Element(d[i].tag, Link(d[i].rel, d[i].type, d[i].name, HrefOf(i)))] :
     d \in SeqsUpTo(ChildShapes, MaxChildren)}

\* the filters of a lookup; each document of the model is looked up once
FilterRels == {"down", "up"}
FilterTypes == {NoType, "org+xml", "vdc+xml"}
FilterNames == {NoName, "acme", "beta"}

NoLink == Link("None", NoType, NoName, "None")

LookupRecord(op, rel, media_type, fail_if_absent, name, found, exc, link, present) ==
    [links |-> lk.links, op |-> op, rel |-> rel, media_type |-> media_type,
     fail_if_absent |-> fail_if_absent, name |-> name, found |-> found,
     exc |-> exc, link |-> link, present |-> present]

NoLookup(children) ==
    [links |-> children, op |-> "none", rel |-> "None", media_type |-> NoType,
     fail_if_absent |-> FALSE, name |-> NoName, found |-> <<>>,
     exc |-> "ok", link |-> NoLink, present |-> FALSE]

\* get_links(resource, rel, media_type, name)
GetLinks(rel, media_type, name) ==
    /\ lk.op = "none"
    /\ lk' = LookupRecord("get_links", rel, media_type, FALSE, name,
                          get_links(findall_Link(lk.links), rel, media_type, name),
                          "ok", NoLink, FALSE)
    /\ UNCHANGED <<clientVars, up, tm, rq, qr, wk, dl>>

FoundRecord(rel, media_type, fail_if_absent, name, found, f) ==
    LookupRecord("find_link", rel, media_type, fail_if_absent, name, found,
                 f.exc, f.link, f.present)

\* find_link(resource, rel, media_type, fail_if_absent, name)
FindLink(rel, media_type, fail_if_absent, name) ==
    /\ lk.op = "none"
    /\ lk' = FoundRecord(rel, media_type, fail_if_absent, name,
                 get_links(findall_Link(lk.links), rel, media_type, name),
                 find_link(findall_Link(lk.links), rel, media_type,
                           fail_if_absent, name))
    /\ UNCHANGED <<clientVars, up, tm, rq, qr, wk, dl>>

\* the uri of every linked-resource operation being the href of the link
linked_uri_plain(method, href) == <<href>>

\* the uri the operation sends its request to: get_resource, post_resource
\* and put_resource take the href of the link, delete_resource builds
\* '%s?force=%s&recursive=%s' % (uri, force, recursive) from it
linked_uri(method, href) ==
    IF method = "DELETE" THEN <<href, "?force=False&recursive=False">>
    ELSE <<href>>

LinkedOutcome(exc, reqs) == [exc |-> exc, reqs |-> reqs]

\* get_linked_resource, post_linked_resource, put_linked_resource and
\* delete_linked_resource(resource, rel, media_type): find_link, then the
\* request; MissingLinkException becomes OperationNotSupportedException,
\* every other exception is raised as it is
linked_resource(method, links, rel, media_type, resp) ==
    LET f == find_link(links, rel, media_type, TRUE, NoName)
    IN IF f.exc = "MissingLinkException"
       THEN LinkedOutcome("OperationNotSupportedException", <<>>)
       ELSE IF f.exc # "ok" THEN LinkedOutcome(f.exc, <<>>)
       ELSE LinkedOutcome(do_request_exc(resp),
                <<[method |-> method, uri |-> linked_uri(method, f.link.href)]>>)

LinkedRecord(method, rel, media_type, found, r) ==
    [reqs |-> r.reqs]
    @@ LookupRecord("linked_resource", rel, media_type, TRUE, method, found,
                    r.exc, NoLink, FALSE)

\* one of the four linked-resource operations on the document
LinkedResource(method, rel, media_type, resp) ==
    /\ lk.op = "none"
    /\ session # 0
    /\ lk' = LinkedRecord(method, rel, media_type,
                 get_links(findall_Link(lk.links), rel, media_type, NoName),
                 linked_resource(method, findall_Link(lk.links), rel, media_type, resp))
    /\ UNCHANGED <<clientVars, up, tm, rq, qr, wk, dl>>

LinkedMethods == {"GET", "POST", "PUT", "DELETE"}

\* the answers to the request of a linked-resource operation
LinkedResponses ==
    {[kind |-> "response", status |-> 200, body |-> "parsed"],
     [kind |-> "response", status |-> 403, body |-> "parsed"]}

InitLinks ==
    /\ InitLoggedIn
    /\ up = UpIdle /\ tm = TmIdle /\ rq = RqIdle /\ qr = QrIdle
    /\ wk = WkIdle /\ dl = DlIdle
    /\ \E d \in LinkDocs : lk = NoLookup(d)

NextLinks ==
    \/ \E rel \in FilterRels, media_type \in FilterTypes, name \in FilterNames :
          GetLinks(rel, media_type, name)
    \/ \E rel \in FilterRels, media_type \in FilterTypes, name \in FilterNames,
          fail_if_absent \in BOOLEAN :
          FindLink(rel, media_type, fail_if_absent, name)
    \/ \E method \in LinkedMethods, rel \in FilterRels, media_type \in FilterTypes,
          resp \in LinkedResponses :
          LinkedResource(method, rel, media_type, resp)

SpecLinks == InitLinks /\ [][NextLinks]_vars


----------------------------------------------------------------------------
(* Claims on get_links and find_link, checked under SpecLinks *)

\* the link satisfies the filters of the last lookup
Matches(e) ==
    /\ e.tag = "Link"
    /\ e.attrs.rel = lk.rel
    /\ \/ lk.media_type = NoType /\ e.attrs.type = NoType
       \/ lk.media_type # NoType /\ e.attrs.type = lk.media_type
    /\ lk.name = NoName \/ e.attrs.name = lk.name

\* the positions of the document's children that satisfy the filters
Matching == {i \in 1..Len(lk.links) : Matches(lk.links[i])}

\* C15: get_links returns exactly the direct link children that satisfy all
\* filters (relation, content type or its absence, optional name), in
\* document order: none omitted, none added.
C15_GetLinksExact ==
    lk.op = "get_links" =>
        /\ Len(lk.found) = Cardinality(Matching)
        /\ \A k \in 1..Len(lk.found) :
               \E i \in Matching :
                   /\ lk.found[k] = lk.links[i].attrs
                   /\ Cardinality({j \in Matching : j < i}) = k - 1

\* a lookup by name and type on a document that has a matching link, a link
\* of another name and an element that is no link
C15_Witness ==
    /\ lk.op = "get_links" /\ lk.name = "acme" /\ lk.media_type = "org+xml"
    /\ Len(lk.found) = 1
    /\ Len(lk.links) = 3
    /\ \E i \in 1..3 : lk.links[i].tag = "Record"
    /\ \E i \in 1..3 : lk.links[i].tag = "Link" /\ lk.links[i].attrs.name = NoName

\* C16: find_link returns the link when exactly one matches; with none it
\* raises MissingLinkException if fail_if_absent and returns nothing
\* otherwise; with two or more it raises MultipleLinksException whatever
\* fail_if_absent is.
C16_FindLinkNeverPicks ==
    lk.op = "find_link" =>
        CASE Cardinality(Matching) = 0 ->
                 /\ ~lk.present
                 /\ lk.exc = IF lk.fail_if_absent THEN "MissingLinkException" ELSE "ok"
          [] Cardinality(Matching) = 1 ->
                 /\ lk.exc = "ok" /\ lk.present
                 /\ \E i \in Matching : lk.link = lk.links[i].attrs
          [] OTHER ->
                 lk.exc = "MultipleLinksException" /\ ~lk.present

\* a lookup that does not fail on absence and finds two matching links
C16_Witness ==
    /\ lk.op = "find_link" /\ ~lk.fail_if_absent
    /\ Cardinality(Matching) = 2
    /\ lk.exc = "MultipleLinksException"


----------------------------------------------------------------------------
(* The request pipeline: headers, the log, _do_request, download_from_uri  *)
(* and the errors raised from a status code                                *)

HEADER_ACCEPT_NAME == "Accept"
HEADER_AUTHORIZATION_NAME == "Authorization"
HEADER_CONTENT_LENGTH_NAME == "Content-Length"
HEADER_CONTENT_RANGE_NAME == "Content-Range"
HEADER_REQUEST_ID_NAME == "X-VMWARE-VCLOUD-REQUEST-ID"
HEADER_X_VCLOUD_AUTH_NAME == "x-vcloud-authorization"
HEADER_X_VMWARE_CLOUD_ACCESS_TOKEN_NAME == "x-vmware-vcloud-access-token"

HEADERS_TO_REDACT ==
    {HEADER_AUTHORIZATION_NAME, HEADER_X_VCLOUD_AUTH_NAME,
     HEADER_X_VMWARE_CLOUD_ACCESS_TOKEN_NAME}

REDACTED == "[REDACTED]"

\* a dict of headers: a function from header names to values
NoHeaders == [key \in {} |-> "None"]

\* CaseInsensitiveDict.get(name): requests looks header names up without
\* regard to case; None when the header is absent
header_get(headers, name) ==
    LET keys == {key \in DOMAIN headers : lower(key) = lower(name)}
    IN IF keys = {} THEN "None" ELSE headers[CHOOSE key \in keys : TRUE]

\* Client._redact_headers: a new dict, the argument is not written to
redact_headers(headers) ==
    [key \in DOMAIN headers |->
        IF key \notin HEADERS_TO_REDACT THEN headers[key] ELSE REDACTED]

\* a line of the log: what it reports, the header dump it prints (dump) and
\* the headers the dump was made of
LogLine(what, dump, headers) == [what |-> what, dump |-> dump, of |-> headers]

\* Client._log_request_sent(method, uri, headers)
log_request_sent(log_requests, log_headers, headers) ==
    IF ~log_requests THEN <<>>
    ELSE <<LogLine("Request uri", NoHeaders, NoHeaders)>>
         \o (IF log_headers
             THEN <<LogLine("Request partial headers", redact_headers(headers), headers)>>
             ELSE <<>>)

\* Client._log_request_response(response): request_headers are
\* response.request.headers
log_request_response(log_requests, log_headers, request_headers, resp) ==
    IF ~log_requests THEN <<>>
    ELSE (IF log_headers
          THEN <<LogLine("Request full headers", redact_headers(request_headers),
                         request_headers)>>
          ELSE <<>>)
         \o <<LogLine("Response status code", NoHeaders, NoHeaders)>>
         \o (IF log_headers
             THEN <<LogLine("Response headers", redact_headers(resp.headers),
                            resp.headers)>>
             ELSE <<>>)

\* what one request writes to the log: the lines before it is sent and, when
\* a response arrives, the lines after it
request_log(log_requests, log_headers, headers, request_headers, resp) ==
    log_request_sent(log_requests, log_headers, headers)
    \o (IF resp.kind = "transport_error" THEN <<>>
        ELSE log_request_response(log_requests, log_headers, request_headers, resp))

\* Client._get_response_request_id
get_response_request_id(resp) == header_get(resp.headers, HEADER_REQUEST_ID_NAME)

\* the arguments an exception mapped from a status code is raised with
ErrorArgs(sc, request_id, body) ==
    [status_code |-> sc, request_id |-> request_id, body |-> body]

NoError == ErrorArgs(0, "None", "None")

\* _objectify_response(response, as_object): None for an empty body, the
\* objectified or the etree document otherwise
objectify_response(resp, as_object) ==
    IF resp.body = "empty" THEN "None"
    ELSE IF as_object THEN "ObjectifiedElement" ELSE "Element"

\* how a call of the pipeline ended: the exception ("ok" when it returned),
\* the value returned, the arguments of a mapped exception and the lines
\* written to the log
Ended(exc, value, error, log) ==
    [exc |-> exc, value |-> value, error |-> error, log |-> log]

\* Client._do_request(method, uri, objectify_results) on the session whose
\* headers are session_headers
do_request(log_requests, log_headers, accept, session_headers, resp, objectify_results) ==
    LET headers == HEADER_ACCEPT_NAME :> accept
        log == request_log(log_requests, log_headers, headers,
                           headers @@ session_headers, resp)
    IN IF resp.kind = "transport_error"
       THEN Ended("ConnectionError", "None", NoError, log)
       ELSE IF objectify_response_exc(resp) # "ok"
       THEN Ended(objectify_response_exc(resp), "None", NoError, log)
       ELSE IF resp.status \in {200, 201, 202, 204}
       THEN Ended("ok", objectify_response(resp, objectify_results), NoError, log)
       ELSE Ended(response_code_to_exception(resp.status), "None",
                  ErrorArgs(resp.status, get_response_request_id(resp),
                            objectify_response(resp, objectify_results)),
                  log)

\* Client.download_from_uri(uri, file_name): the number of bytes written is
\* not modelled
download_from_uri(log_requests, log_headers, session_headers, resp) ==
    LET log == request_log(log_requests, log_headers, NoHeaders,
                           session_headers, resp)
    IN IF resp.kind = "transport_error"
       THEN Ended("ConnectionError", "None", NoError, log)
       ELSE IF resp.status # 200
       THEN Ended(response_code_to_exception(resp.status), "None",
                  ErrorArgs(resp.status, "None", "Response"), log)
       ELSE Ended("ok", "bytes_written", NoError, log)

\* Client.upload_fragment from the attempt-th iteration of its loop on, resps
\* being the answers to the PUTs and log the lines written so far
RECURSIVE upload_fragment_from(_, _, _, _, _, _)
upload_fragment_from(log_requests, log_headers, session_headers, resps, attempt, log) ==
    LET resp == resps[attempt]
        headers == (HEADER_CONTENT_RANGE_NAME :> "bytes")
                   @@ (HEADER_CONTENT_LENGTH_NAME :> "len")
        log1 == log \o request_log(log_requests, log_headers, headers,
                                   headers @@ session_headers, resp)
    IN IF attempt_exc(resp) = "ok" THEN Ended("ok", "Response", NoError, log1)
       ELSE IF retry_upload(resp, attempt)
       THEN upload_fragment_from(log_requests, log_headers, session_headers,
                                 resps, attempt + 1, log1)
       ELSE Ended(attempt_exc(resp), "None",
                  IF resp.kind = "transport_error" THEN NoError
                  ELSE ErrorArgs(resp.status, "None", "Response"),
                  log1)

\* Client.upload_fragment(uri, contents, range_str)
upload_fragment(log_requests, log_headers, session_headers, resps) ==
    upload_fragment_from(log_requests, log_headers, session_headers, resps, 1, <<>>)

\* the attempt at which upload_fragment ends
RECURSIVE last_attempt(_, _)
last_attempt(resps, attempt) ==
    IF retry_upload(resps[attempt], attempt) THEN last_attempt(resps, attempt + 1)
    ELSE attempt

\* 'Bearer ' + token
Bearer(token) ==
    CASE token = "jwtA" -> "Bearer jwtA"
      [] token = "jwtB" -> "Bearer jwtB"
      [] token = "tokA" -> "Bearer tokA"
      [] token = "tokB" -> "Bearer tokB"

\* the arguments of the mapped exception raised by rehydrate_from_token
rehydrate_error(resp) ==
    IF resp.kind = "response" /\ resp.status # 200 /\ objectify_response_exc(resp) = "ok"
    THEN ErrorArgs(resp.status, get_response_request_id(resp),
                   objectify_response(resp, TRUE))
    ELSE NoError

\* the arguments of the mapped exception raised by set_credentials: r is
\* the parsed body, response.json() or _objectify_response(response)
login_error(cloudapi, resp) ==
    IF resp.kind = "response" /\ resp.status # 200 /\ resp.body = "parsed"
    THEN ErrorArgs(resp.status, get_response_request_id(resp),
                   IF cloudapi THEN "dict" ELSE "ObjectifiedElement")
    ELSE NoError

\* the headers of the GET that rehydrate_from_token sends on new_session
rehydrate_headers(accept, token, is_jwt_token) ==
    (HEADER_ACCEPT_NAME :> accept)
    @@ (IF is_jwt_token THEN HEADER_AUTHORIZATION_NAME :> Bearer(token)
        ELSE HEADER_X_VCLOUD_AUTH_NAME :> token)

\* what rehydrate_from_token writes to the log
rehydrate_log(log_requests, log_headers, accept, token, is_jwt_token, resp) ==
    request_log(log_requests, log_headers, HEADER_ACCEPT_NAME :> accept,
                rehydrate_headers(accept, token, is_jwt_token), resp)

\* what set_credentials writes to the log: the POST of the login with the
\* Authorization header that auth=(user, password) makes requests add and,
\* when it was sent, the GET of rehydrate_from_token
login_log(log_requests, log_headers, accept, rehydrated, resp, resp2) ==
    request_log(log_requests, log_headers, HEADER_ACCEPT_NAME :> accept,
                (HEADER_ACCEPT_NAME :> accept)
                @@ (HEADER_AUTHORIZATION_NAME :> "Basic credentials"), resp)
    \o (IF rehydrated
        THEN rehydrate_log(log_requests, log_headers, "application/*+xml",
                           resp.token, TRUE, resp2)
        ELSE <<>>)


----------------------------------------------------------------------------
(* Calls of the request pipeline on a client: a first login, then requests, *)
(* uploads and downloads on its session                                    *)

\* the status codes the server answers with: the four success codes, the
\* eleven codes with an exception class of their own, and others
RqStatuses ==
    {200, 201, 202, 204, 203, 302, 400, 401, 403, 404, 405, 406, 408, 409, 415,
     416, 500, 503}

RqBodies == {"empty", "parsed", "garbage"}

\* the headers of a response: with or without the request id
PlainHeaders ==
    {"Content-Type" :> "xml",
     ("Content-Type" :> "xml") @@ (HEADER_REQUEST_ID_NAME :> "req-1")}

\* the headers of the answer to a login: the request id and the two token
\* headers, whose names the server spells in a case of its choice
LoginHeaders ==
    {("Content-Type" :> "xml") @@ (HEADER_REQUEST_ID_NAME :> "req-1"),
     ("Content-Type" :> "xml") @@ (HEADER_REQUEST_ID_NAME :> "req-1")
         @@ ("x-vcloud-authorization" :> "tokA")
         @@ ("x-vmware-vcloud-access-token" :> "jwtA"),
     ("Content-Type" :> "xml") @@ (HEADER_REQUEST_ID_NAME :> "req-1")
         @@ ("x-vcloud-authorization" :> "tokA")
         @@ ("X-VMWARE-VCLOUD-ACCESS-TOKEN" :> "jwtA"),
     ("Content-Type" :> "xml")
         @@ ("X-VCLOUD-AUTHORIZATION" :> "tokA")
         @@ ("X-VMWARE-VCLOUD-ACCESS-TOKEN" :> "jwtA")}

RqResponse(kind, sc, b, doc, headers) ==
    [kind |-> kind, status |-> sc, body |-> b, token |-> NoToken, doc |-> doc,
     headers |-> headers]

RqNoResponse == RqResponse("none", 0, "empty", NoDoc, NoHeaders)

RqTransportError == RqResponse("transport_error", 0, "empty", NoDoc, NoHeaders)

\* the answers to a request on the session
RqResponses ==
    {RqTransportError}
    \cup {RqResponse("response", sc, b, NoDoc, h) :
             sc \in RqStatuses, b \in RqBodies, h \in PlainHeaders}

\* the answers to the POST of a login and to the GET of a session
RqLoginResponses ==
    {RqTransportError}
    \cup {RqResponse("response", sc, b, NoDoc, h) :
             sc \in {401, 503}, b \in RqBodies, h \in LoginHeaders}
    \cup {RqResponse("response", 200, "garbage", NoDoc, h) : h \in LoginHeaders}
    \cup {RqResponse("response", 200, "parsed",
                     SessionDoc("acme", <<Link("down", "org+xml", "acme", "href_org")>>),
                     h) : h \in LoginHeaders}

\* the answers to the PUT of a fragment and to the GET of a download
RqTransferResponses ==
    {RqTransportError}
    \cup {RqResponse("response", sc, "parsed", NoDoc, h) :
             sc \in {200, 416, 500, 503}, h \in PlainHeaders}

\* the response with the token that response.headers[name] reads
WithToken(resp, name) == [resp EXCEPT !.token = header_get(resp.headers, name)]

\* the Accept header without the version suffix
AcceptOf(cloudapi) == IF cloudapi THEN "application/json" ELSE "application/*+xml"

RqRecord(op, resp, attempts, session_headers, exc, value, error, log) ==
    [op |-> op, log_requests |-> rq.log_requests, log_headers |-> rq.log_headers,
     session_headers |-> session_headers, resp |-> resp, attempts |-> attempts,
     exc |-> exc, value |-> value, error |-> error, log |-> log]

RqNone(log_requests, log_headers) ==
    [op |-> "none", log_requests |-> log_requests, log_headers |-> log_headers,
     session_headers |-> NoHeaders, resp |-> RqNoResponse, attempts |-> 0,
     exc |-> "ok", value |-> "None", error |-> NoError, log |-> <<>>]

\* the headers of the session a login left on the client
session_headers_after(s, auth_header) ==
    IF s.session = 0 THEN NoHeaders ELSE auth_header

\* set_credentials ended as r
RqLoggedIn(r, cloudapi, resp, resp2) ==
    /\ SetSelf(r.self)
    /\ conns' = r.conns
    /\ call' = CallRecord("set_credentials", r, <<>>, <<>>)
    /\ calls' = calls + 1
    /\ rq' = RqRecord("set_credentials",
                 IF Len(r.reqs) = 2 THEN resp2 ELSE resp, 0,
                 session_headers_after(r.self,
                     IF Len(r.reqs) = 2
                     THEN HEADER_AUTHORIZATION_NAME :> Bearer(resp.token)
                     ELSE IF r.self.vcloud_auth_token # NoToken
                     THEN HEADER_X_VCLOUD_AUTH_NAME :> r.self.vcloud_auth_token
                     ELSE NoHeaders),
                 r.exc, "None",
                 IF Len(r.reqs) = 2 THEN rehydrate_error(resp2)
                 ELSE login_error(cloudapi, resp),
                 login_log(rq.log_requests, rq.log_headers, AcceptOf(cloudapi),
                           Len(r.reqs) = 2, resp, resp2))
    /\ UNCHANGED <<up, tm, lk, qr, wk, dl>>

\* set_credentials answered by resp and resp2, whose token fields hold the
\* header each step reads
RqLogin(cloudapi, resp, resp2) ==
    RqLoggedIn(set_credentials(Self, Conns, "administrator", "acme",
                   [kind |-> "none", status |-> 0, versions |-> <<>>], resp, resp2),
               cloudapi, resp, resp2)

\* the first login of the client, by set_credentials
RqSetCredentials(resp, resp2) ==
    /\ session = 0 /\ calls = 0
    /\ RqLogin(use_cloudapi_login_endpoint(api_version),
               WithToken(resp,
                   IF use_cloudapi_login_endpoint(api_version)
                   THEN HEADER_X_VMWARE_CLOUD_ACCESS_TOKEN_NAME
                   ELSE HEADER_X_VCLOUD_AUTH_NAME),
               WithToken(resp2, HEADER_X_VCLOUD_AUTH_NAME))

\* rehydrate_from_token ended as r
RqRehydrated(r, token, is_jwt_token, resp) ==
    /\ SetSelf(r.self)
    /\ conns' = r.conns
    /\ call' = CallRecord("rehydrate_from_token", r, <<>>, <<>>)
    /\ calls' = calls + 1
    /\ rq' = RqRecord("rehydrate_from_token", resp, 0,
                 session_headers_after(r.self,
                     IF is_jwt_token THEN HEADER_AUTHORIZATION_NAME :> Bearer(token)
                     ELSE HEADER_X_VCLOUD_AUTH_NAME :> token),
                 r.exc, "None", rehydrate_error(resp),
                 rehydrate_log(rq.log_requests, rq.log_headers, AcceptOf(FALSE),
                               token, is_jwt_token, resp))
    /\ UNCHANGED <<up, tm, lk, qr, wk, dl>>

\* the first login of the client, by rehydrate_from_token
RqRehydrateFromToken(token, is_jwt_token, resp) ==
    /\ session = 0 /\ calls = 0
    /\ RqRehydrated(rehydrate_from_token(Self, Conns, token, is_jwt_token,
                        [kind |-> "none", status |-> 0, versions |-> <<>>],
                        WithToken(resp, HEADER_X_VCLOUD_AUTH_NAME)),
                    token, is_jwt_token, WithToken(resp, HEADER_X_VCLOUD_AUTH_NAME))

\* a call on the session ended as e; a request on a closed requests.Session
\* opens sockets again.  A call reads the session, its headers and the log
\* settings and writes none of them, so calls do not depend on the calls
\* before them: each is taken from the state the login left
RqEnded(op, resp, attempts, e) ==
    /\ rq.op \in {"set_credentials", "rehydrate_from_token"}
    /\ rq' = RqRecord(op, resp, attempts, rq.session_headers, e.exc, e.value,
                      e.error, e.log)
    /\ conns' = Open(Conns, session)
    /\ UNCHANGED <<selfVars, call, calls, up, tm, lk, qr, wk, dl>>

\* Client._do_request('GET', uri, objectify_results=objectify_results)
RqDoRequest(resp, objectify_results) ==
    /\ session # 0
    /\ RqEnded(IF objectify_results THEN "do_request" ELSE "do_request_etree",
               resp, 1,
               do_request(rq.log_requests, rq.log_headers, AcceptOf(FALSE),
                          rq.session_headers, resp, objectify_results))

\* Client.upload_fragment(uri, contents, range_str); resps are the answers
\* to its PUTs
RqUploadFragment(resps) ==
    /\ session # 0
    /\ RqEnded("upload_fragment", resps[last_attempt(resps, 1)],
               last_attempt(resps, 1),
               upload_fragment(rq.log_requests, rq.log_headers,
                               rq.session_headers, resps))

\* Client.download_from_uri(uri, file_name)
RqDownloadFromUri(resp) ==
    /\ session # 0
    /\ RqEnded("download_from_uri", resp, 1,
               download_from_uri(rq.log_requests, rq.log_headers,
                                 rq.session_headers, resp))

\* the answers to the PUTs of one upload: the same failure until the n-th
\* PUT, then one answer to every further PUT
UploadAnswers ==
    {[i \in 1..UPLOAD_FRAGMENT_MAX_RETRIES |-> IF i < n THEN fail ELSE last] :
        n \in 1..UPLOAD_FRAGMENT_MAX_RETRIES,
        fail \in {r \in RqTransferResponses : r.kind = "response" /\ r.status = 416},
        last \in RqTransferResponses}

\* Client.__init__(uri, api_version, log_requests, log_headers)
InitRequest ==
    /\ \E ver \in {V29, V36} : SetSelfInit(ver)
    /\ conns = [i \in ConnIds |-> "free"]
    /\ call = NoCall
    /\ calls = 0
    /\ up = UpIdle /\ tm = TmIdle /\ lk = LkIdle /\ qr = QrIdle
    /\ wk = WkIdle /\ dl = DlIdle
    /\ \E log_requests \in BOOLEAN, log_headers \in BOOLEAN :
           rq = RqNone(log_requests, log_headers)

NextRequest ==
    \/ \E resp \in RqLoginResponses :
          \E resp2 \in IF /\ use_cloudapi_login_endpoint(api_version)
                          /\ resp.kind = "response" /\ resp.status = 200
                          /\ header_get(resp.headers,
                                 HEADER_X_VMWARE_CLOUD_ACCESS_TOKEN_NAME) # "None"
                       THEN RqLoginResponses ELSE {RqNoResponse} :
              RqSetCredentials(resp, resp2)
    \/ \E is_jwt_token \in BOOLEAN, resp \in RqLoginResponses :
          RqRehydrateFromToken("tokB", is_jwt_token, resp)
    \/ \E resp \in RqResponses, objectify_results \in BOOLEAN :
          RqDoRequest(resp, objectify_results)
    \/ \E resps \in UploadAnswers : RqUploadFragment(resps)
    \/ \E resp \in RqTransferResponses : RqDownloadFromUri(resp)

SpecRequest == InitRequest /\ [][NextRequest]_vars


----------------------------------------------------------------------------
(* Claims on the request pipeline, checked under SpecRequest *)

\* the status codes with an error class of their own
MappedCodes == {400, 401, 403, 404, 405, 406, 408, 409, 415, 416, 500}

\* every HTTP status code
StatusCodes == 100..599

\* the error taxonomy: the class of each mapped code
ErrorClassOf ==
    (400 :> "BadRequestException") @@ (401 :> "UnauthorizedException")
    @@ (403 :> "AccessForbiddenException") @@ (404 :> "NotFoundException")
    @@ (405 :> "MethodNotAllowedException") @@ (406 :> "NotAcceptableException")
    @@ (408 :> "RequestTimeoutException") @@ (409 :> "ConflictException")
    @@ (415 :> "UnsupportedMediaTypeException")
    @@ (416 :> "InvalidContentLengthException")
    @@ (500 :> "InternalServerException")

\* the class the taxonomy gives a status code
ExpectedClass(sc) ==
    IF sc \in MappedCodes THEN ErrorClassOf[sc] ELSE "UnknownApiException"

\* over all status codes the mapping gives the class of the taxonomy, the
\* mapped codes have pairwise distinct classes, none of them the catch-all
MappingIsTotal ==
    /\ \A sc \in StatusCodes : response_code_to_exception(sc) = ExpectedClass(sc)
    /\ \A a, b \in MappedCodes :
           a # b => response_code_to_exception(a) # response_code_to_exception(b)
    /\ \A sc \in MappedCodes : response_code_to_exception(sc) # "UnknownApiException"

\* the last call raised an exception mapped from the status of its response
RaisedMapped == rq.op # "none" /\ rq.error # NoError

\* C17: the status-code mapping is a total function: each of 400, 401, 403,
\* 404, 405, 406, 408, 409, 415, 416 and 500 has an error class of its own,
\* every other code maps to UnknownApiException, and a call of the mapping
\* always raises.
C17_StatusMappingTotal ==
    /\ MappingIsTotal
    /\ RaisedMapped =>
           /\ rq.exc = ExpectedClass(rq.error.status_code)
           /\ rq.exc # "ok"

\* a request answered 406 and one answered 503 raised their classes
C17_Witness ==
    /\ rq.op = "do_request"
    /\ \/ rq.resp.status = 406 /\ rq.exc = "NotAcceptableException"
       \/ rq.resp.status = 503 /\ rq.exc = "UnknownApiException"

\* the last call was _do_request and got a response
RequestAnswered ==
    rq.op \in {"do_request", "do_request_etree"} /\ rq.resp.kind = "response"

\* C18: _do_request returns the parsed document for status 200, 201, 202
\* and 204, None exactly when the body is empty, and for every other status
\* raises the error mapped from it and returns nothing.
C18_NonSuccessAlwaysMapped ==
    RequestAnswered =>
        IF rq.resp.status \in {200, 201, 202, 204}
        THEN /\ rq.exc = "ok"
             /\ rq.value = "None" <=> rq.resp.body = "empty"
             /\ rq.resp.body # "empty" =>
                    rq.value = IF rq.op = "do_request" THEN "ObjectifiedElement"
                               ELSE "Element"
        ELSE /\ rq.exc = ExpectedClass(rq.resp.status)
             /\ rq.value = "None"

\* the forms of a parsed body
ParsedBodies == {"ObjectifiedElement", "Element", "dict"}

\* C19: every error mapped from a status code, whichever of request, login,
\* rehydrate, upload_fragment and download raises it, carries the status
\* code, the request id of the failed response's request-id header, and the
\* parsed error body when the response has one.
C19_ErrorCarriesContext ==
    RaisedMapped =>
        /\ rq.error.status_code = rq.resp.status
        /\ rq.error.request_id = header_get(rq.resp.headers, HEADER_REQUEST_ID_NAME)
        /\ rq.resp.body = "parsed" => rq.error.body \in ParsedBodies

\* the POST of the first login was answered with a status that is not a
\* success status
LoginRefused ==
    /\ rq.op = "set_credentials"
    /\ Len(call.reqs) = 1
    /\ rq.resp.kind = "response"
    /\ rq.resp.status \notin {200, 201, 202, 204}

\* C22: a login whose POST is answered with a non-success status raises and
\* leaves the client without session, token, session document and open
\* connection: the exception is the one mapped from the status, carrying
\* the status, when the body was parsed, and the generic VcdException of
\* 'Login failed.' when the body is empty or is not parsed.
C22_LoginFailureRaises ==
    LoginRefused =>
        /\ rq.exc # "ok"
        /\ session = 0 /\ vcloud_session = NoDoc
        /\ vcloud_auth_token = NoToken /\ vcloud_access_token = NoToken
        /\ \A c \in call.opened : conns[c] = "closed"
        /\ rq.resp.body = "parsed" =>
              /\ rq.exc = ExpectedClass(rq.resp.status)
              /\ rq.error.status_code = rq.resp.status
        /\ rq.resp.body \in {"empty", "garbage"} =>
              /\ rq.exc = "VcdException"
              /\ rq.error = NoError

\* a login answered 503 with a body that is not parsed
C22_Witness ==
    /\ LoginRefused
    /\ rq.resp.status = 503
    /\ rq.resp.body = "garbage"
    /\ rq.exc = "VcdException"

\* the header carries an authorization: HTTP header names are compared
\* without regard to case
AuthorizationBearing(key) ==
    lower(key) \in {lower(name) : name \in HEADERS_TO_REDACT}

\* the lines of the log that print headers
HeaderDumps == {i \in 1..Len(rq.log) : rq.log[i].what # "Request uri"
                                        /\ rq.log[i].what # "Response status code"}

\* C20: every header dump in the log, of a request or of a response, has the
\* keys of the headers it was made of, the placeholder as the value of every
\* authorization-bearing header (Authorization, x-vcloud-authorization,
\* x-vmware-vcloud-access-token) and the unchanged value of every other
\* header.
C20_LoggedHeadersRedacted ==
    \A i \in HeaderDumps :
        /\ DOMAIN rq.log[i].dump = DOMAIN rq.log[i].of
        /\ \A key \in DOMAIN rq.log[i].of :
               rq.log[i].dump[key] = IF AuthorizationBearing(key) THEN REDACTED
                                     ELSE rq.log[i].of[key]

----------------------------------------------------------------------------
(* Queries: _AbstractQuery.execute, _iterator and find_unique *)

\* the query href found in the query list of the server, and the relation of
\* the link to the following page
QUERY_HREF == "https://vcd/api/query?type=vm"

\* no query href in the query list; a page or a page size that is not set
NoHref == "None"

NoPage == 0

NoPageSize == 0

NEXT_PAGE == "nextPage"

\* _build_query_uri(base_query_href, page, page_size, ...) of a query without
\* filter, fields and sort order: the href, '&page=' and str(page), then
\* '&pageSize=' and str(page_size) when a page size is set
build_query_uri(base_query_href, page, page_size) ==
    <<base_query_href, "&page=", ToString(page)>>
        \o (IF page_size # NoPageSize THEN <<"&pageSize=", ToString(page_size)>> ELSE <<>>)

\* the page a query uri asks the server for
PageOf(uri) == CHOOSE k \in 0..(MaxPages + 1) : ToString(k) = uri[3]

\* a page of the server's chain: how many records it has and whether its
\* links come before or after them
PageShapes == [records : 0..MaxPageRecords, links_first : BOOLEAN]

Chains == {c \in SeqsUpTo(PageShapes, MaxPages) : Len(c) >= 1}

\* the children of a query result document
QRecord(k, i) == [tag |-> "VMRecord", rel |-> "None", href |-> None, page |-> k, idx |-> i]

QLink(rel, href, k) == [tag |-> "Link", rel |-> rel, href |-> href, page |-> k, idx |-> 0]

\* page k of the chain as the server sends it: a link to the page itself, a
\* link to the following page unless it is the last one, and its records
PageLinks(chain, k) ==
    <<QLink("alternate", build_query_uri(QUERY_HREF, k, NoPageSize), k)>>
        \o (IF k < Len(chain)
            THEN <<QLink(NEXT_PAGE, build_query_uri(QUERY_HREF, k + 1, NoPageSize), k)>>
            ELSE <<>>)

PageRecords(chain, k) == [i \in 1..chain[k].records |-> QRecord(k, i)]

iterchildren(chain, k) ==
    IF chain[k].links_first THEN PageLinks(chain, k) \o PageRecords(chain, k)
    ELSE PageRecords(chain, k) \o PageLinks(chain, k)

\* every record of the chain in page order and, within a page, document order
RECURSIVE RecordsUpTo(_, _)
RecordsUpTo(chain, k) ==
    IF k = 0 THEN <<>> ELSE RecordsUpTo(chain, k - 1) \o PageRecords(chain, k)

AllRecords(chain) == RecordsUpTo(chain, Len(chain))

\* the generator returned by execute() and what its consumer has seen of it
Generator(pc, cur, pos, next_page_uri, fetched, item) ==
    [pc |-> pc, cur |-> cur, pos |-> pos, next_page_uri |-> next_page_uri,
     fetched |-> fetched, item |-> item]

NoItem == QRecord(0, 0)

\* tag.localname == 'Link' is the test of _iterator and of execute; the
\* mutation takes no child for a link
is_Link_never(r) == FALSE

is_Link(r) == r.tag = "Link"

\* the body of _iterator from the child after position pos of page cur up to
\* the next yield or the end of the generator: a next page link sets
\* next_page_uri, any other child is yielded; after the last child the
\* generator ends when no next page link was seen and fetches that page
\* otherwise
RECURSIVE iterator(_, _, _, _, _)
iterator(chain, cur, pos, next_page_uri, fetched) ==
    IF pos = Len(iterchildren(chain, cur))
    THEN IF next_page_uri = None
         THEN Generator("done", cur, pos, None, fetched, NoItem)
         ELSE iterator(chain, PageOf(next_page_uri), 0, None,
                       Append(fetched, next_page_uri))
    ELSE LET r == iterchildren(chain, cur)[pos + 1]
         IN IF ~is_Link(r)
            THEN Generator("suspended", cur, pos + 1, next_page_uri, fetched, r)
            ELSE iterator(chain, cur, pos + 1,
                          IF r.rel = NEXT_PAGE THEN r.href ELSE next_page_uri,
                          fetched)

\* a generator that starts over from the first page once it has ended
next_restarting(chain, g) ==
    IF g.pc = "done"
    THEN iterator(chain, 1, 0, None, Append(g.fetched, build_query_uri(QUERY_HREF, 1, NoPageSize)))
    ELSE iterator(chain, g.cur, g.pos, g.next_page_uri, g.fetched)

\* next(generator): a generator that has ended raises StopIteration again
next(chain, g) ==
    IF g.pc = "done" THEN Generator("done", g.cur, g.pos, None, g.fetched, NoItem)
    ELSE iterator(chain, g.cur, g.pos, g.next_page_uri, g.fetched)

\* _AbstractQuery.__init__: a page that is set (and is not 0) selects the
\* single page mode
query_all_pages(page) == page = NoPage

\* the page of the descriptor taken from the argument as it is
page_as_given(page) == page

page_of_query(page) == IF query_all_pages(page) THEN 1 ELSE page

\* the result of a query
QueryResult(pc, exc, g, yielded, result) ==
    [pc |-> pc, exc |-> exc, cur |-> g.cur, pos |-> g.pos,
     next_page_uri |-> g.next_page_uri, fetched |-> g.fetched,
     yielded |-> yielded, item |-> g.item, result |-> result]

NoGenerator == Generator("none", 0, 0, None, <<>>, NoItem)

\* the dictionary of the single page mode: has_previousPageUri tells whether
\* the key previousPageUri is in it
NoResult == [resultTotal |-> 0, nextPageUri |-> None, has_previousPageUri |-> FALSE,
             previousPageUri |-> None, values |-> <<>>]

\* what the server answers to the query for page p of size s: the records of
\* the chain cut into pages of that size, the total as an attribute
total(chain) == Len(AllRecords(chain))

slice(all, p, s) ==
    LET lo == (p - 1) * s + 1
        hi == IF p * s < Len(all) THEN p * s ELSE Len(all)
    IN IF lo > hi THEN <<>> ELSE SubSeq(all, lo, hi)

page_children(chain, p, s) ==
    (IF p * s < total(chain) THEN <<QLink(NEXT_PAGE, build_query_uri(QUERY_HREF, p + 1, s), p)>>
     ELSE <<>>) \o slice(AllRecords(chain), p, s)

\* the non-link children of a page, in document order
RECURSIVE resources(_)
resources(children) ==
    IF children = <<>> THEN <<>>
    ELSE (IF is_Link(Head(children)) THEN <<>> ELSE <<Head(children)>>)
             \o resources(Tail(children))

\* the single page mode with the test of the next page turned into <=
execute_page_inclusive(chain, query_href, page, page_size) ==
    [resultTotal |-> total(chain),
     nextPageUri |-> IF page * page_size <= total(chain)
                     THEN build_query_uri(query_href, page + 1, page_size)
                     ELSE None,
     has_previousPageUri |-> page > 1,
     previousPageUri |-> IF page > 1
                         THEN build_query_uri(query_href, page - 1, page_size)
                         ELSE None,
     values |-> resources(page_children(chain, page, page_size))]

\* execute() in the single page mode: the dictionary it returns, where the
\* key previousPageUri is set only for a page after the first
execute_page(chain, query_href, page, page_size) ==
    [resultTotal |-> total(chain),
     nextPageUri |-> IF page * page_size < total(chain)
                     THEN build_query_uri(query_href, page + 1, page_size)
                     ELSE None,
     has_previousPageUri |-> page > 1,
     previousPageUri |-> IF page > 1
                         THEN build_query_uri(query_href, page - 1, page_size)
                         ELSE None,
     values |-> resources(page_children(chain, page, page_size))]

\* execute(): without a query href it raises before any request; in the
\* stream-all mode it fetches the first page and returns the generator, not
\* yet started; in the single page mode it fetches that page and returns the
\* dictionary (the product of the page and a page size that is not set is a
\* TypeError)
execute(chain, query_href, page, page_size) ==
    IF query_href = NoHref
    THEN QueryResult("raised", "OperationNotSupportedException", NoGenerator, <<>>, NoResult)
    ELSE LET query_uri == build_query_uri(query_href, page_of_query(page), page_size)
         IN IF query_all_pages(page)
            THEN QueryResult("created", "ok",
                             Generator("created", 1, 0, None, <<query_uri>>, NoItem),
                             <<>>, NoResult)
            ELSE IF page_size = NoPageSize
            THEN QueryResult("raised", "TypeError",
                             Generator("none", 0, 0, None, <<query_uri>>, NoItem),
                             <<>>, NoResult)
            ELSE QueryResult("returned", "ok",
                             Generator("none", 0, 0, None, <<query_uri>>, NoItem),
                             <<>>, execute_page(chain, query_href, page, page_size))

\* find_unique that looks for a second record on the page of the first only
unique_on_its_page(chain, first, second) ==
    IF first.pc = "done"
    THEN QueryResult("raised", "MissingRecordException", first, <<>>, NoResult)
    ELSE IF second.pc = "done" \/ second.item.page # first.item.page
    THEN QueryResult("returned", "ok", first, <<first.item>>, NoResult)
    ELSE QueryResult("raised", "MultipleRecordsException", second,
                     <<first.item, second.item>>, NoResult)

\* the two next() calls of find_unique: StopIteration at the first is a
\* MissingRecordException, a second item is a MultipleRecordsException,
\* StopIteration at the second returns the first item
unique(chain, first, second) ==
    IF first.pc = "done"
    THEN QueryResult("raised", "MissingRecordException", first, <<>>, NoResult)
    ELSE IF second.pc = "done"
    THEN QueryResult("returned", "ok",
                     Generator("done", second.cur, second.pos, None, second.fetched,
                               first.item),
                     <<first.item>>, NoResult)
    ELSE QueryResult("raised", "MultipleRecordsException", second,
                     <<first.item, second.item>>, NoResult)

find_unique_from(chain, first) == unique(chain, first, next(chain, first))

\* find_unique(): execute(), then next() on what it returned; the dictionary
\* of the single page mode is no iterator
find_unique(chain, executed) ==
    IF executed.pc = "raised" THEN executed
    ELSE IF executed.pc = "returned"
    THEN QueryResult("raised", "TypeError", NoGenerator, <<>>, NoResult)
    ELSE find_unique_from(chain,
             iterator(chain, executed.cur, executed.pos, executed.next_page_uri,
                      executed.fetched))

\* a query of the client: the chain of pages of the server, the call made
\* and its arguments
Query(chain, op, page, page_size, r) ==
    [pages |-> chain, op |-> op, page |-> page, page_size |-> page_size,
     pc |-> r.pc, exc |-> r.exc, cur |-> r.cur, pos |-> r.pos,
     next_page_uri |-> r.next_page_uri, fetched |-> r.fetched,
     yielded |-> r.yielded, item |-> r.item, result |-> r.result]

NoQuery(chain) ==
    Query(chain, "none", NoPage, NoPageSize, QueryResult("none", "ok", NoGenerator, <<>>, NoResult))

GeneratorOf(q) == Generator(q.pc, q.cur, q.pos, q.next_page_uri, q.fetched, q.item)

\* the server cuts the result into pages no longer than the page size asked
Serves(chain, page_size) ==
    page_size # NoPageSize => \A k \in 1..Len(chain) : chain[k].records <= page_size

\* query.execute()
Execute(query_href, page, page_size) ==
    /\ qr.pc = "none"
    /\ Serves(qr.pages, page_size)
    /\ qr' = Query(qr.pages, "execute", page, page_size,
                   execute(qr.pages, query_href, page, page_size))
    /\ UNCHANGED <<clientVars, up, tm, lk, rq, wk, dl>>

Yielded(q, g) ==
    QueryResult(g.pc, "ok", g,
                IF g.pc = "suspended" THEN Append(q.yielded, g.item) ELSE q.yielded,
                NoResult)

\* next() on the generator execute() returned
NextItem ==
    /\ qr.op = "execute"
    /\ qr.pc \in {"created", "suspended"}
    /\ qr' = Query(qr.pages, "execute", qr.page, qr.page_size,
                   Yielded(qr, next(qr.pages, GeneratorOf(qr))))
    /\ UNCHANGED <<clientVars, up, tm, lk, rq, wk, dl>>

\* next() on a generator that has ended
NextAfterEnd ==
    /\ qr.op = "execute"
    /\ qr.pc = "done"
    /\ qr' = Query(qr.pages, "next_after_end", qr.page, qr.page_size,
                   Yielded(qr, next(qr.pages, GeneratorOf(qr))))
    /\ UNCHANGED <<clientVars, up, tm, lk, rq, wk, dl>>

\* query.find_unique()
FindUnique(query_href, page, page_size) ==
    /\ qr.pc = "none"
    /\ Serves(qr.pages, page_size)
    /\ qr' = Query(qr.pages, "find_unique", page, page_size,
                   find_unique(qr.pages, execute(qr.pages, query_href, page, page_size)))
    /\ UNCHANGED <<clientVars, up, tm, lk, rq, wk, dl>>

QueryHrefs == {NoHref, QUERY_HREF}

QueryPages == {NoPage} \cup 1..MaxPages

QueryPageSizes == {NoPageSize} \cup 1..MaxPageRecords

InitQuery ==
    /\ InitLoggedIn
    /\ up = UpIdle /\ tm = TmIdle /\ lk = LkIdle /\ rq = RqIdle
    /\ wk = WkIdle /\ dl = DlIdle
    /\ \E chain \in Chains : qr = NoQuery(chain)

NextQuery ==
    \/ \E query_href \in QueryHrefs, page \in QueryPages, page_size \in QueryPageSizes :
          Execute(query_href, page, page_size)
    \/ NextItem
    \/ NextAfterEnd
    \/ \E query_href \in QueryHrefs, page \in QueryPages, page_size \in QueryPageSizes :
          FindUnique(query_href, page, page_size)

SpecQuery == InitQuery /\ [][NextQuery]_vars

----------------------------------------------------------------------------
(* Claims about queries *)

\* the query was executed in the stream-all mode and returned its generator
StreamAll ==
    /\ qr.op \in {"execute", "next_after_end"}
    /\ query_all_pages(qr.page)
    /\ qr.pc \in {"created", "suspended", "done"}

PageSizes(chain) == [k \in 1..Len(chain) |-> chain[k].records]

\* C11: in the stream-all mode the records handed out so far are the first
\* records of the chain, in page order and in document order within a page,
\* each once and no link among them; when the sequence has ended they are
\* all the records of all the pages and the page it ended on is the one
\* without a nextPage link.
C11_StreamYieldsEveryRecordOnce ==
    StreamAll =>
        /\ Len(qr.yielded) <= Len(AllRecords(qr.pages))
        /\ qr.yielded = SubSeq(AllRecords(qr.pages), 1, Len(qr.yielded))
        /\ \A i \in 1..Len(qr.yielded) : qr.yielded[i].tag # "Link"
        /\ qr.pc = "done" =>
              /\ qr.yielded = AllRecords(qr.pages)
              /\ qr.cur = Len(qr.pages)
              /\ \A i \in 1..Len(PageLinks(qr.pages, qr.cur)) :
                     PageLinks(qr.pages, qr.cur)[i].rel # NEXT_PAGE

\* three pages of 2, 2 and 1 records were consumed to the end: 5 records
C11_Witness ==
    /\ StreamAll
    /\ qr.pc = "done"
    /\ PageSizes(qr.pages) = <<2, 2, 1>>
    /\ Len(qr.yielded) = 5

\* the pages requested by the query, in the order of the requests
FetchedPages == [i \in 1..Len(qr.fetched) |-> PageOf(qr.fetched[i])]

NoPageFetchedTwice ==
    \A i, j \in 1..Len(qr.fetched) : i # j => qr.fetched[i] # qr.fetched[j]

\* C12 as stated: while the stream-all sequence has not ended, every page
\* requested holds one of the records the consumer has asked for, and no
\* page was requested twice.
C12_OnlyPagesOfConsumedRecords ==
    (StreamAll /\ qr.pc # "done") =>
        /\ \A i \in 1..Len(qr.fetched) :
              \E j \in 1..Len(qr.yielded) : qr.yielded[j].page = FetchedPages[i]
        /\ NoPageFetchedTwice

\* the last page the consumer has reached: the first page before any record
\* was asked for, the page of the last record handed out, the last page of
\* the chain when the sequence has ended
ReachedPage ==
    IF qr.pc = "created" THEN 1
    ELSE IF qr.pc = "suspended" THEN qr.yielded[Len(qr.yielded)].page
    ELSE Len(qr.pages)

\* C12: execute() requests the first page; every later page is requested
\* only when the consumer asks for a record beyond the pages requested so
\* far: the pages requested are the pages of the chain up to the one the
\* consumer has reached, each once and in chain order, and a sequence that
\* has ended requests nothing more.
C12_LazyForwardOnly ==
    StreamAll =>
        /\ FetchedPages = [k \in 1..ReachedPage |-> k]
        /\ NoPageFetchedTwice

\* three records of a chain of three pages were consumed and the third page
\* was not requested
C12_Witness ==
    /\ StreamAll
    /\ qr.pc = "suspended"
    /\ Len(qr.pages) = 3
    /\ Len(qr.yielded) = 3
    /\ FetchedPages = <<1, 2>>

\* find_unique() was called on a stream-all query of a client that has the
\* query href
UniqueAsked ==
    /\ qr.op = "find_unique"
    /\ query_all_pages(qr.page)
    /\ qr.exc # "OperationNotSupportedException"

\* C13: find_unique() on a stream-all query returns the record when the
\* chain holds exactly one record, raises MissingRecordException when it
\* holds none and MultipleRecordsException when it holds a second record on
\* any page; the second record is the second item pulled from the sequence,
\* with the pages up to its page requested.
C13_FindUnique ==
    UniqueAsked =>
        /\ total(qr.pages) = 0 =>
              qr.pc = "raised" /\ qr.exc = "MissingRecordException"
        /\ total(qr.pages) = 1 =>
              qr.pc = "returned" /\ qr.exc = "ok" /\ qr.item = AllRecords(qr.pages)[1]
        /\ total(qr.pages) >= 2 =>
              /\ qr.pc = "raised" /\ qr.exc = "MultipleRecordsException"
              /\ qr.yielded = SubSeq(AllRecords(qr.pages), 1, 2)
              /\ FetchedPages = [k \in 1..AllRecords(qr.pages)[2].page |-> k]

\* the second record was found on a later page than the first
C13_Witness ==
    /\ UniqueAsked
    /\ qr.exc = "MultipleRecordsException"
    /\ Len(qr.yielded) = 2
    /\ qr.yielded[1].page < qr.yielded[2].page

\* execute() returned the dictionary of the single page mode
SinglePage ==
    /\ qr.op = "execute"
    /\ ~query_all_pages(qr.page)
    /\ qr.pc = "returned"

\* C14: in the single page mode with page p and page size s the dictionary
\* has the total of the response, a next page uri if and only if
\* p * s < total and a previous page uri if and only if p > 1, and they are
\* the uri of the same query for the pages p + 1 and p - 1.
C14_SinglePageUris ==
    SinglePage =>
        /\ qr.result.resultTotal = total(qr.pages)
        /\ (qr.result.nextPageUri # None) <=> (qr.page * qr.page_size < total(qr.pages))
        /\ qr.result.has_previousPageUri <=> (qr.page > 1)
        /\ qr.result.nextPageUri # None =>
              qr.result.nextPageUri =
                  <<QUERY_HREF, "&page=", ToString(qr.page + 1),
                    "&pageSize=", ToString(qr.page_size)>>
        /\ qr.result.has_previousPageUri =>
              qr.result.previousPageUri =
                  <<QUERY_HREF, "&page=", ToString(qr.page - 1),
                    "&pageSize=", ToString(qr.page_size)>>

\* a page in the middle: it has a next and a previous page
C14_Witness ==
    /\ SinglePage
    /\ qr.page = 2
    /\ qr.result.nextPageUri # None
    /\ qr.result.has_previousPageUri

----------------------------------------------------------------------------
(* Well-known endpoints and the query catalog: _get_wk_endpoint,           *)
(* _get_wk_resource, _get_query_list_map and the execute() of a typed      *)
(* query, on a client that logs in and out                                 *)

\* the value of a QueryResultFormat member: its content type
RECORDS == "application/vnd.vmware.vcloud.query.records+xml"

REFERENCES == "application/vnd.vmware.vcloud.query.references+xml"

\* a link of the query list: the key of the catalog and the query href
QueryLink(type, name, href) == [type |-> type, name |-> name, href |-> href]

\* Client._query_list_map: None, or the dictionary as a set of
\* <<type, name, href>>
NoCatalog == [none |-> TRUE, map |-> {}]

Catalog(map) == [none |-> FALSE, map |-> map]

\* _get_wk_endpoint that answers with the first entry of the map whatever
\* the endpoint asked for
get_wk_endpoint_any(endpoints, wk_type) ==
    IF endpoints = NoEndpoints THEN [exc |-> "TypeError", uri |-> "None"]
    ELSE IF endpoints = {} THEN [exc |-> "ClientException", uri |-> "None"]
    ELSE [exc |-> "ok", uri |-> (CHOOSE entry \in endpoints : TRUE)[2]]

\* Client._get_wk_endpoint(wk_type): the href of the map, ClientException
\* when the map has no entry for the endpoint; `in` on a map that is None
\* is a TypeError
get_wk_endpoint(endpoints, wk_type) ==
    IF endpoints = NoEndpoints THEN [exc |-> "TypeError", uri |-> "None"]
    ELSE IF \E entry \in endpoints : entry[1] = wk_type
    THEN [exc |-> "ok", uri |-> (CHOOSE entry \in endpoints : entry[1] = wk_type)[2]]
    ELSE [exc |-> "ClientException", uri |-> "None"]

Get(uri) == [method |-> "GET", uri |-> uri]

\* how a call of this section ended: the exception ("ok" when it
\* returned), the requests it sent and the value of Client._query_list_map
\* after it
Looked(exc, reqs, cache) == [exc |-> exc, reqs |-> reqs, cache |-> cache]

\* Client.get_resource(uri) on the session of the client, answered by resp:
\* session.request on a session that is None is an AttributeError
get_resource(s, uri, resp, cache) ==
    IF s.session = 0 THEN Looked("AttributeError", <<>>, cache)
    ELSE Looked(do_request_exc(resp), <<Get(uri)>>, cache)

\* Client._get_wk_resource(wk_type), e being how _get_wk_endpoint ended
get_wk_resource(s, e, resp, cache) ==
    IF e.exc # "ok" THEN Looked(e.exc, <<>>, cache)
    ELSE get_resource(s, e.uri, resp, cache)

\* the loop of _get_query_list_map over the links of the query list: a
\* later link replaces an earlier one with its key
RECURSIVE query_list_map_of(_, _, _)
query_list_map_of(links, i, map) ==
    IF i > Len(links) THEN map
    ELSE query_list_map_of(links, i + 1,
             {m \in map : ~(m[1] = links[i].type /\ m[2] = links[i].name)}
                 \cup {<<links[i].type, links[i].name, links[i].href>>})

\* the statements of _get_query_list_map that follow
\* self._query_list_map = {}, r being how get_query_list() ended: the
\* attribute Link of None or of a document without Link children is an
\* AttributeError
query_list_map_fetched(r, resp) ==
    IF r.exc # "ok" THEN Looked(r.exc, r.reqs, Catalog({}))
    ELSE IF resp.body = "empty" \/ resp.links = <<>>
    THEN Looked("AttributeError", r.reqs, Catalog({}))
    ELSE Looked("ok", r.reqs, Catalog(query_list_map_of(resp.links, 1, {})))

\* _get_query_list_map that asks the server at every call
get_query_list_map_uncached(s, cache, resp) ==
    query_list_map_fetched(
        get_wk_resource(s, get_wk_endpoint(s.session_endpoints, "QUERY_LIST"),
                        resp, Catalog({})),
        resp)

\* Client._get_query_list_map(): the dictionary of the client when it is
\* not None; otherwise it is set to {} and filled from get_query_list()
get_query_list_map(s, cache, resp) ==
    IF ~cache.none THEN Looked("ok", <<>>, cache)
    ELSE query_list_map_fetched(
             get_wk_resource(s, get_wk_endpoint(s.session_endpoints, "QUERY_LIST"),
                             resp, Catalog({})),
             resp)

\* _TypedQuery._find_query_uri(query_result_format): the href of the pair in
\* the dictionary, None when it has none
find_query_uri(map, query_media_type, query_type_name) ==
    IF \E m \in map : m[1] = query_media_type /\ m[2] = query_type_name
    THEN (CHOOSE m \in map : m[1] = query_media_type /\ m[2] = query_type_name)[3]
    ELSE NoHref

\* execute() of a typed query after _find_query_uri, m being how
\* _get_query_list_map ended: the exception of the catalog, or
\* OperationNotSupportedException without a query href, or the GET of the
\* query uri in either mode
typed_query_executed(s, m, query_href, page, page_size, qresp) ==
    IF m.exc # "ok" THEN m
    ELSE IF query_href = NoHref
    THEN Looked("OperationNotSupportedException", m.reqs, m.cache)
    ELSE LET g == get_resource(s, build_query_uri(query_href, page_of_query(page),
                                                  page_size), qresp, m.cache)
         IN Looked(g.exc, m.reqs \o g.reqs, m.cache)

typed_query_found(s, m, query_media_type, query_type_name, page, page_size, qresp) ==
    typed_query_executed(s, m,
        find_query_uri(m.cache.map, query_media_type, query_type_name),
        page, page_size, qresp)

\* client.get_typed_query(query_type_name, query_result_format, page,
\* page_size).execute(); cresp answers the GET of the query list, qresp the
\* GET of the query
typed_query_execute(s, cache, query_media_type, query_type_name, page, page_size, cresp, qresp) ==
    typed_query_found(s, get_query_list_map(s, cache, cresp),
                      query_media_type, query_type_name, page, page_size, qresp)

\* the query lists of the server
Catalogs ==
    {<<>>,
     <<QueryLink(RECORDS, "vm", "href_q_vm")>>,
     <<QueryLink(RECORDS, "vm", "href_q_vm"),
       QueryLink(RECORDS, "adminVM", "href_q_adminVM"),
       QueryLink(REFERENCES, "vm", "href_q_vm_refs")>>}

\* the session documents of the logins: a system administrator's and an
\* organisation user's without a link to the query list
CatalogDocs ==
    {SessionDoc("System",
         <<Link("down", "org+xml", "System", "href_org"),
           Link("down", "admin.vcloud+xml", NoName, "href_admin"),
           Link("down", "queryList+xml", NoName, "href_query")>>),
     SessionDoc("acme",
         <<Link("down", "org+xml", "acme", "href_org"),
           Link("down", "queryList+xml", NoName, "href_query")>>),
     SessionDoc("acme", <<Link("down", "org+xml", "acme", "href_org")>>)}

\* the answers to the GET of the query list of the session and to the GET
\* of a resource or of a query
CatalogResponse(sc, b, links) ==
    [kind |-> "response", status |-> sc, body |-> b, links |-> links]

CatalogResponses ==
    {CatalogResponse(200, "parsed", wk.server), CatalogResponse(500, "parsed", <<>>)}

ResourceResponses ==
    {CatalogResponse(200, "parsed", <<>>), CatalogResponse(403, "parsed", <<>>)}

\* the record of the last call: the client's dictionary, the query list the
\* server advertises to the session, the number of the session (of the
\* logins that established one), the session in which the dictionary was
\* filled and the GETs of the query list that _get_query_list_map sent in
\* the session; then the call, its
\* arguments, how it ended and the dictionary before it
WkRecord(r, server, session_no, filled_in, fetches, op, arg) ==
    [query_list_map |-> r.cache, server |-> server, session_no |-> session_no,
     filled_in |-> filled_in, fetches |-> fetches,
     op |-> op, arg |-> arg, exc |-> r.exc, reqs |-> r.reqs,
     had_session |-> session # 0, before |-> wk.query_list_map]

NoArg == [wk_type |-> "None", type |-> "None", name |-> "None", page |-> NoPage]

WkNone ==
    [query_list_map |-> NoCatalog, server |-> <<>>, session_no |-> 0,
     filled_in |-> 0, fetches |-> 0,
     op |-> "none", arg |-> NoArg, exc |-> "ok", reqs |-> <<>>,
     had_session |-> FALSE, before |-> NoCatalog]

CatalogCall ==
    /\ calls < MaxCatalogCalls
    /\ calls' = calls + 1
    /\ UNCHANGED <<up, tm, lk, rq, qr, dl>>

\* set_credentials ended as r: a login that returned starts a session, to
\* which the server advertises the query list catalog
CatLoggedIn(r, catalog) ==
    /\ SetSelf(r.self)
    /\ conns' = r.conns
    /\ call' = CallRecord("set_credentials", r, <<>>, <<>>)
    /\ wk' = WkRecord(Looked(r.exc, <<>>, wk.query_list_map),
                      IF r.exc = "ok" THEN catalog ELSE wk.server,
                      IF r.exc = "ok" THEN wk.session_no + 1 ELSE wk.session_no,
                      wk.filled_in,
                      IF r.exc = "ok" THEN 0 ELSE wk.fetches,
                      "set_credentials", NoArg)

\* client.set_credentials(creds)
CatLogin(org, resp, catalog) ==
    /\ CatalogCall
    /\ HasFreeConn(Conns, 3)
    /\ CatLoggedIn(set_credentials(Self, Conns, "administrator", org,
                       [kind |-> "none", status |-> 0, versions |-> <<>>],
                       resp, NoResponse),
                   catalog)

CatLoggedOut(r) ==
    /\ SetSelf(r.self)
    /\ conns' = r.conns
    /\ call' = CallRecord("logout", r, <<>>, <<>>)
    /\ wk' = WkRecord(Looked(r.exc, <<>>, wk.query_list_map), wk.server,
                      wk.session_no, wk.filled_in, wk.fetches, "logout", NoArg)

\* client.logout()
CatLogout(resp) ==
    /\ CatalogCall
    /\ CatLoggedOut(logout(Self, Conns, resp))

\* client._get_wk_resource(wk_type)
GetWkResource(wk_type, resp) ==
    /\ CatalogCall
    /\ wk' = WkRecord(get_wk_resource(Self, get_wk_endpoint(session_endpoints, wk_type),
                                      resp, wk.query_list_map),
                      wk.server, wk.session_no, wk.filled_in, wk.fetches,
                      "get_wk_resource", [NoArg EXCEPT !.wk_type = wk_type])
    /\ UNCHANGED <<selfVars, conns, call>>

\* the GETs of the query list among the requests of a call
CatalogGets(r) ==
    Cardinality({i \in 1..Len(r.reqs) :
        r.reqs[i].uri = get_wk_endpoint(session_endpoints, "QUERY_LIST").uri})

TypedQueryExecuted(r, query_media_type, query_type_name, page) ==
    /\ wk' = WkRecord(r, wk.server, wk.session_no,
                      IF wk.query_list_map.none /\ ~r.cache.none
                      THEN wk.session_no ELSE wk.filled_in,
                      IF wk.query_list_map.none THEN wk.fetches + CatalogGets(r)
                      ELSE wk.fetches,
                      "execute",
                      [NoArg EXCEPT !.type = query_media_type,
                                    !.name = query_type_name, !.page = page])
    /\ UNCHANGED <<selfVars, conns, call>>

\* client.get_typed_query(...).execute()
ExecuteTypedQuery(query_media_type, query_type_name, page, page_size, cresp, qresp) ==
    /\ CatalogCall
    /\ TypedQueryExecuted(
           typed_query_execute(Self, wk.query_list_map, query_media_type,
                               query_type_name, page, page_size, cresp, qresp),
           query_media_type, query_type_name, page)

\* the answers to the POST of a login and to the DELETE of a session
CatLoginResponses ==
    {[kind |-> "response", status |-> 200, body |-> "parsed", token |-> "tokA",
      doc |-> d] : d \in CatalogDocs}
    \cup {[kind |-> "response", status |-> 401, body |-> "parsed", token |-> NoToken,
           doc |-> NoDoc]}

CatLogoutResponses ==
    {[kind |-> "response", status |-> 204, body |-> "empty"],
     [kind |-> "response", status |-> 500, body |-> "empty"]}

WkTypes == {"ADMIN", "QUERY_LIST", "OPENAPI"}

\* Client.__init__(uri, api_version='29.0')
InitCatalog ==
    /\ SetSelfInit(V29)
    /\ conns = [i \in ConnIds |-> "free"]
    /\ call = NoCall
    /\ calls = 0
    /\ up = UpIdle /\ tm = TmIdle /\ lk = LkIdle /\ rq = RqIdle /\ qr = QrIdle
    /\ dl = DlIdle
    /\ wk = WkNone

NextCatalog ==
    \/ \E org \in Orgs, resp \in CatLoginResponses, catalog \in Catalogs :
          CatLogin(org, resp, catalog)
    \/ \E resp \in CatLogoutResponses : CatLogout(resp)
    \/ \E wk_type \in WkTypes, resp \in ResourceResponses :
          GetWkResource(wk_type, resp)
    \/ \E query_media_type \in {RECORDS, REFERENCES}, query_type_name \in {"vm", "adminVM"},
          page \in {NoPage, 2}, cresp \in CatalogResponses, qresp \in ResourceResponses :
          ExecuteTypedQuery(query_media_type, query_type_name, page,
                            IF page = NoPage THEN NoPageSize ELSE 1, cresp, qresp)

SpecCatalog == InitCatalog /\ [][NextCatalog]_vars

----------------------------------------------------------------------------
(* Claims about well-known endpoints and the query catalog, checked under  *)
(* SpecCatalog                                                             *)

\* the last call looked up a well-known endpoint on a session
EndpointLookedUp == wk.op = "get_wk_resource" /\ wk.had_session

\* the entries of the endpoint map of the session for the endpoint asked
EntriesAsked == {entry \in session_endpoints : entry[1] = wk.arg.wk_type}

\* C24: on a session, the lookup of a well-known endpoint that has no entry
\* in the endpoint map raises ClientException and sends no request; the
\* lookup of one that has an entry sends one GET, to the uri of the entry.
C24_WellKnownEndpointLookup ==
    EndpointLookedUp =>
        /\ EntriesAsked = {} => wk.exc = "ClientException" /\ wk.reqs = <<>>
        /\ \A entry \in EntriesAsked : wk.reqs = <<[method |-> "GET", uri |-> entry[2]]>>

\* the admin endpoint of a system administrator's session was fetched
C24_Witness ==
    /\ EndpointLookedUp
    /\ wk.arg.wk_type = "ADMIN"
    /\ wk.exc = "ok"
    /\ wk.reqs = <<[method |-> "GET", uri |-> "href_admin"]>>

\* the last call executed a typed query on a session
QueryExecuted == wk.op = "execute" /\ wk.had_session

\* the pair of the query is in the query list the server advertises to the
\* session
Advertised ==
    \E i \in 1..Len(wk.server) :
        wk.server[i].type = wk.arg.type /\ wk.server[i].name = wk.arg.name

\* every GET of the query list sent by the last call was answered
QueryListServed ==
    wk.exc \notin {"InternalServerException", "ClientException"}

\* C25: execute() of a typed query whose (content type, name) pair is not
\* in the query list the server advertises to the session raises
\* OperationNotSupportedException and sends no query request, whatever the
\* mode of the query.
C25_UnknownQueryUnsupported ==
    (QueryExecuted /\ ~Advertised /\ QueryListServed) =>
        /\ wk.exc = "OperationNotSupportedException"
        /\ \A i \in 1..Len(wk.reqs) : wk.reqs[i].uri = "href_query"

\* C26: in one session the query list is fetched for the dictionary at most
\* once, however many queries run; a call that
\* finds the dictionary filled leaves it as it is; the dictionary a query
\* of a session uses was filled in that session.
C26_CatalogOncePerSession ==
    /\ wk.fetches <= 1
    /\ (wk.op \in {"execute", "get_wk_resource"} /\ ~wk.before.none) =>
           wk.query_list_map = wk.before
    /\ (QueryExecuted /\ ~wk.query_list_map.none) => wk.filled_in = wk.session_no

\* the last call was a query on a client without dictionary, and the fetch
\* of the query list raised: no endpoint, no session, a refused GET or a
\* query list without links
PopulationFailed ==
    /\ wk.op = "execute"
    /\ wk.before.none
    /\ wk.exc \notin {"ok", "OperationNotSupportedException"}
    /\ Len(wk.reqs) <= 1

\* C37: when the fetch of the query list raises, the dictionary of the
\* client stays None, so the client never holds an empty dictionary and the
\* next query fetches the query list again.
C37_FailedFetchLeavesCacheEmpty ==
    /\ PopulationFailed => wk.query_list_map = NoCatalog
    /\ wk.query_list_map # Catalog({})

----------------------------------------------------------------------------
(* Query descriptors: _AbstractQuery.__init__ with a filter and the uri    *)
(* execute() builds from the descriptor.  A filter is a sequence of       *)
(* one-character strings; None and '' are both the empty sequence.         *)

VERSION_35 == V35

\* urllib.parse.quote on one character of the filters of the model: letters
\* and digits are kept, every other character is %XX
quote_char(c) ==
    CASE c = "%" -> <<"%", "2", "5">>
      [] c = "=" -> <<"%", "3", "D">>
      [] c = ";" -> <<"%", "3", "B">>
      [] c = "," -> <<"%", "2", "C">>
      [] c = "(" -> <<"%", "2", "8">>
      [] c = ")" -> <<"%", "2", "9">>
      [] OTHER -> <<c>>

\* urllib.parse.quote(s)
RECURSIVE quote(_)
quote(s) == IF s = <<>> THEN <<>> ELSE quote_char(Head(s)) \o quote(Tail(s))

\* str.replace(old, new): the occurrences of old from left to right, not
\* overlapping
RECURSIVE replace(_, _, _)
replace(s, old, new) ==
    IF Len(s) < Len(old) THEN s
    ELSE IF SubSeq(s, 1, Len(old)) = old
    THEN new \o replace(SubSeq(s, Len(old) + 1, Len(s)), old, new)
    ELSE <<Head(s)>> \o replace(Tail(s), old, new)

Escaped(code) == <<"%", "5", "C">> \o code

\* _AbstractQuery._escape_special_characters(val): the four replacements in
\* the order of the code
escape_special_characters(val) ==
    IF val = <<>> THEN val
    ELSE replace(replace(replace(replace(val,
             <<"%", "2", "8">>, Escaped(<<"%", "2", "8">>)),
             <<"%", "2", "9">>, Escaped(<<"%", "2", "9">>)),
             <<"%", "2", "C">>, Escaped(<<"%", "2", "C">>)),
             <<"%", "3", "B">>, Escaped(<<"%", "3", "B">>))

\* float(client.get_api_version()) < float(ApiVersion.VERSION_35.value)
is_below_v35_query(ver) == FloatTimes100(ver) < FloatTimes100(VERSION_35)

NoEqualityFilter == <<>>

\* self._filter after _AbstractQuery.__init__: the filter, escaped from
\* version 35.0 on, then the equality filter joined with ';', its value raw
\* below 35.0 and quoted and escaped from 35.0 on
init_filter(ver, qfilter, equality_filter) ==
    LET filter == IF is_below_v35_query(ver) THEN qfilter
                  ELSE escape_special_characters(qfilter)
    IN IF equality_filter = NoEqualityFilter THEN filter
       ELSE (IF filter # <<>> THEN filter \o <<";">> ELSE <<>>)
            \o equality_filter[1] \o <<"=", "=">>
            \o (IF is_below_v35_query(ver) THEN equality_filter[2]
                ELSE escape_special_characters(quote(equality_filter[2])))

\* the filter parameter as every version below 35.0 gets it
filter_param_always_encoded(ver, qfilter) ==
    IF qfilter = <<>> THEN <<>>
    ELSE <<"&filterEncoded=true&filter=">> \o quote(qfilter)

\* the filter parameter of _build_query_uri: nothing without a filter,
\* '&filterEncoded=true&filter=' and the quoted filter below 35.0,
\* '&filter=' and the filter from 35.0 on
filter_param(ver, qfilter) ==
    IF qfilter = <<>> THEN <<>>
    ELSE IF is_below_v35_query(ver)
    THEN <<"&filterEncoded=true&filter=">> \o quote(qfilter)
    ELSE <<"&filter=">> \o qfilter

\* the fields of a query that execute() reads
Descriptor(all_pages, page, page_size, filter) ==
    [query_all_pages |-> all_pages, page |-> page, page_size |-> page_size,
     filter |-> filter]

\* _AbstractQuery.__init__(query_result_format, client, page, page_size,
\* qfilter, equality_filter)
abstract_query_init(ver, page, page_size, qfilter, equality_filter) ==
    Descriptor(query_all_pages(page), page_of_query(page), page_size,
               init_filter(ver, qfilter, equality_filter))

\* execute() on a descriptor d: the query uri it builds and requests and the
\* kind of what it returns; it assigns no field of the descriptor
execute_descriptor(ver, d, query_href) ==
    [d |-> d,
     uri |-> build_query_uri(query_href, d.page, d.page_size)
                 \o filter_param(ver, d.filter),
     kind |-> IF d.query_all_pages THEN "generator"
              ELSE IF d.page_size = NoPageSize THEN "TypeError"
              ELSE "dict"]

\* the filters of the model: letters, operators, encoded and raw reserved
\* characters
FilterTokens ==
    {<<"a">>, <<"=", "=">>, <<"%", "2", "8">>, <<"%", "2", "9">>,
     <<"%", "2", "C">>, <<"%", "3", "B">>, <<"(">>, <<";">>, <<"%", "2", "5">>}

RECURSIVE Flatten(_)
Flatten(ss) == IF ss = <<>> THEN <<>> ELSE Head(ss) \o Flatten(Tail(ss))

Filters == {Flatten(ss) : ss \in SeqsUpTo(FilterTokens, MaxFilterTokens)}

EqualityFilters == {NoEqualityFilter, <<<<"n">>, <<"(", "a", ",">>>>}

\* the versions of the clients that build queries
DescriptorVersions == {V29, V34, V35, V36}

\* a query of the client: the arguments of its constructor, the descriptor
\* the constructor made, the descriptor now, and the last execute()
DescriptorRecord(pc, args, made, d, uri, kind, executions) ==
    [pc |-> pc, args |-> args, made |-> made, d |-> d, uri |-> uri,
     kind |-> kind, executions |-> executions]

NoArgs == [page |-> NoPage, page_size |-> NoPageSize, qfilter |-> <<>>,
           equality_filter |-> NoEqualityFilter]

NoDescriptor == Descriptor(TRUE, 1, NoPageSize, <<>>)

Constructed(args, d) == DescriptorRecord("constructed", args, d, d, <<>>, "none", 0)

\* client.get_typed_query(...): the constructor of the query
NewQuery(page, page_size, qfilter, equality_filter) ==
    /\ qr.pc = "new"
    /\ qr' = Constructed([page |-> page, page_size |-> page_size,
                          qfilter |-> qfilter, equality_filter |-> equality_filter],
                         abstract_query_init(api_version, page, page_size, qfilter,
                                             equality_filter))
    /\ UNCHANGED <<clientVars, up, tm, lk, rq, wk, dl>>

DescriptorExecuted(e) ==
    qr' = DescriptorRecord("executed", qr.args, qr.made, e.d, e.uri, e.kind,
                           qr.executions + 1)

\* query.execute(), any number of times on one descriptor
ExecuteDescriptor ==
    /\ qr.pc \in {"constructed", "executed"}
    /\ qr.executions < 2
    /\ DescriptorExecuted(execute_descriptor(api_version, qr.d, QUERY_HREF))
    /\ UNCHANGED <<clientVars, up, tm, lk, rq, wk, dl>>

InitDescriptor ==
    /\ \E ver \in DescriptorVersions : api_version = ver
    /\ session = LoggedInClient.self.session
    /\ vcloud_session = LoggedInClient.self.vcloud_session
    /\ vcloud_auth_token = LoggedInClient.self.vcloud_auth_token
    /\ vcloud_access_token = LoggedInClient.self.vcloud_access_token
    /\ session_endpoints = LoggedInClient.self.session_endpoints
    /\ is_sysadmin = LoggedInClient.self.is_sysadmin
    /\ conns = LoggedInClient.conns
    /\ call = NoCall
    /\ calls = 0
    /\ up = UpIdle /\ tm = TmIdle /\ lk = LkIdle /\ rq = RqIdle
    /\ wk = WkIdle /\ dl = DlIdle
    /\ qr = DescriptorRecord("new", NoArgs, NoDescriptor, NoDescriptor, <<>>, "none", 0)

NextDescriptor ==
    \/ \E page \in 0..2, page_size \in {NoPageSize, 2}, qfilter \in Filters,
          equality_filter \in EqualityFilters :
          NewQuery(page, page_size, qfilter, equality_filter)
    \/ ExecuteDescriptor

SpecDescriptor == InitDescriptor /\ [][NextDescriptor]_vars

----------------------------------------------------------------------------
(* Claims on wait_for_success, checked under SpecTask                      *)

StatusOf(t) == lower(t.status)

TaskFailedRaised == tm.pc = "raised" /\ tm.exc = "VcdTaskException"

\* wait_for_success fails on error only and returns on success only; a
\* canceled or aborted task is polled on
WaitForSuccessOnErrorOnly ==
    tm.op = "wait_for_success" =>
        /\ TaskFailedRaised => StatusOf(tm.seen[Len(tm.seen)]) = "error"
        /\ tm.pc = "returned" => StatusOf(tm.seen[Len(tm.seen)]) = "success"
        /\ \A i \in 1..Len(tm.seen) :
               /\ StatusOf(tm.seen[i]) = "success" =>
                      i = Len(tm.seen) /\ tm.pc = "returned"
               /\ (StatusOf(tm.seen[i]) = "error" /\ tm.seen[i].Error # "None") =>
                      i = Len(tm.seen) /\ TaskFailedRaised
               /\ StatusOf(tm.seen[i]) \in {"canceled", "aborted"} =>
                      (i < Len(tm.seen) \/ (~TaskFailedRaised /\ tm.pc # "returned"))

\* wait_for_status with the default fail-on statuses and the target success
\* raises VcdTaskException on error, canceled and aborted
DefaultFailsOnThree ==
    (tm.op = "wait_for_status" /\ tm.fail_on = DEFAULT_FAIL_ON
        /\ tm.targets = {"SUCCESS"}) =>
        \A i \in 1..Len(tm.seen) :
            StatusOf(tm.seen[i]) \in {"error", "canceled", "aborted"} =>
                i = Len(tm.seen) /\ TaskFailedRaised

\* C29: wait_for_success raises VcdTaskException on the status error only
\* and returns on the status success only, so a canceled or aborted task
\* does not make it raise VcdTaskException; wait_for_status with its
\* default fail-on statuses raises VcdTaskException on each of error,
\* canceled and aborted.
C29_SuccessFailsOnErrorOnly == WaitForSuccessOnErrorOnly /\ DefaultFailsOnThree

----------------------------------------------------------------------------
(* Claims on the order of a poll and on its transport errors, checked      *)
(* under SpecTask                                                          *)

LastSeen == tm.seen[Len(tm.seen)]

TransportErrorRaised == tm.pc = "raised" /\ tm.exc = "ConnectionError"

\* C33: every poll fetches the task, calls the callback once with the task
\* it fetched (on the last poll too), tests the target statuses, then the
\* fail-on statuses, then the timeout, and sleeps last.  So the call never
\* ends or sleeps before it fetched once, a status in both lists makes the
\* call return, a target or fail-on status ends the call at its poll and
\* never as a timeout, and TaskTimeoutException and the sleep follow a
\* status that is in neither list.
C33_PollOrder ==
    /\ tm.callbacks = IF tm.callback THEN tm.seen ELSE <<>>
    /\ (tm.pc \in {"returned", "sleep"} \/ (tm.pc = "raised" /\ ~TransportErrorRaised))
           => Len(tm.seen) >= 1
    /\ \A i \in 1..Len(tm.seen) :
           /\ IsTarget(tm.seen[i]) =>
                  i = Len(tm.seen) /\ tm.pc = "returned" /\ tm.result = tm.seen[i]
           /\ (IsFailOn(tm.seen[i]) /\ ~IsTarget(tm.seen[i])) =>
                  /\ i = Len(tm.seen) /\ tm.pc = "raised"
                  /\ tm.exc \notin {"TaskTimeoutException", "ConnectionError"}
    /\ (tm.pc = "raised" /\ tm.exc = "TaskTimeoutException") =>
           /\ ~IsTarget(LastSeen) /\ ~IsFailOn(LastSeen)
           /\ timed_out(tm.start_time, tm.now, tm.timeout)
    /\ tm.pc = "sleep" =>
           /\ ~IsTarget(LastSeen) /\ ~IsFailOn(LastSeen)
           /\ ~timed_out(tm.start_time, tm.now, tm.timeout)

\* the second poll, later than the timeout after the start, fetched a status
\* that is in both lists: the callback got both tasks, the call returned
C33_Witness ==
    /\ tm.pc = "returned"
    /\ tm.callback
    /\ Len(tm.seen) = 2
    /\ tm.callbacks = tm.seen
    /\ IsTarget(LastSeen) /\ IsFailOn(LastSeen)
    /\ tm.timeout >= 0
    /\ tm.now - tm.start_time > tm.timeout

\* the step is a poll that fetched no task
FetchFailedStep == tm.pc = "poll" /\ tm'.pc # "poll" /\ tm'.seen = tm.seen

\* C34: a poll whose fetch raises a transport error ends wait_for_status
\* with that error at that poll: no callback, no sleep, no further poll,
\* and neither VcdTaskException nor TaskTimeoutException in its place.
C34_TransportErrorPropagates ==
    [][FetchFailedStep =>
          /\ tm'.pc = "raised"
          /\ tm'.exc = "ConnectionError"
          /\ tm'.callbacks = tm.callbacks
          /\ tm'.result = tm.result]_vars

\* the third poll of a call raised a transport error
C34_Witness ==
    /\ TransportErrorRaised
    /\ Len(tm.seen) = 2
    /\ tm.callbacks = tm.seen

----------------------------------------------------------------------------
(* Claims on the query descriptor, checked under SpecDescriptor            *)

FILTER_ENCODED == "&filterEncoded=true&filter="
FILTER_PLAIN == "&filter="

\* the uri of the last execute() carries the parameter p
Carries(uri, p) == \E i \in 1..Len(uri) : uri[i] = p

\* the characters after the filter parameter of the uri
FilterValue(uri) ==
    LET i == CHOOSE j \in 1..Len(uri) : uri[j] \in {FILTER_ENCODED, FILTER_PLAIN}
    IN SubSeq(uri, i + 1, Len(uri))

\* the encoded forms of ( ) , ; which the fixed table escapes
EscapeCodes == {<<"%", "2", "8">>, <<"%", "2", "9">>, <<"%", "2", "C">>,
                <<"%", "3", "B">>}

\* one scan from the left: each encoded form of the table gets %5C in front
RECURSIVE EscapedByTable(_)
EscapedByTable(s) ==
    IF s = <<>> THEN <<>>
    ELSE IF Len(s) >= 3 /\ SubSeq(s, 1, 3) \in EscapeCodes
    THEN <<"%", "5", "C">> \o SubSeq(s, 1, 3) \o EscapedByTable(SubSeq(s, 4, Len(s)))
    ELSE <<Head(s)>> \o EscapedByTable(Tail(s))

\* the %5C of the table taken away again
RECURSIVE Unescaped(_)
Unescaped(s) ==
    IF s = <<>> THEN <<>>
    ELSE IF Len(s) >= 6 /\ SubSeq(s, 1, 3) = <<"%", "5", "C">>
                        /\ SubSeq(s, 4, 6) \in EscapeCodes
    THEN SubSeq(s, 4, 6) \o Unescaped(SubSeq(s, 7, Len(s)))
    ELSE <<Head(s)>> \o Unescaped(Tail(s))

\* the character a %XX stands for
Decoded(hex) ==
    CASE hex = <<"2", "5">> -> "%"
      [] hex = <<"3", "D">> -> "="
      [] hex = <<"3", "B">> -> ";"
      [] hex = <<"2", "C">> -> ","
      [] hex = <<"2", "8">> -> "("
      [] hex = <<"2", "9">> -> ")"
      [] OTHER -> "?"

\* percent-decoding, once
RECURSIVE Unquoted(_)
Unquoted(s) ==
    IF s = <<>> THEN <<>>
    ELSE IF Head(s) = "%" /\ Len(s) >= 3
    THEN <<Decoded(SubSeq(s, 2, 3))>> \o Unquoted(SubSeq(s, 4, Len(s)))
    ELSE <<Head(s)>> \o Unquoted(Tail(s))

\* no character of s has a meaning in a uri or in a filter
OnlyEncoded(s) == \A i \in 1..Len(s) : s[i] \notin {"=", ";", ",", "(", ")", "?"}

\* the filter text of the query: the filter, then the equality filter
FilterText(args) ==
    IF args.equality_filter = NoEqualityFilter THEN args.qfilter
    ELSE (IF args.qfilter # <<>> THEN args.qfilter \o <<";">> ELSE <<>>)
         \o args.equality_filter[1] \o <<"=", "=">> \o args.equality_filter[2]

Below35 == VersionLess(StrictVersion(api_version), <<35, 0, 0>>)

DescriptorExecutedOnce == qr.pc = "executed"

\* C27: the filter of the query uri depends on the version only.  Below
\* 35.0 the uri carries filterEncoded=true and the filter text
\* percent-encoded once (decoding it once gives the text back, and nothing
\* reserved is left in it); from 35.0 on it carries no filterEncoded flag,
\* and the filter with every encoded form of ( ) , ; escaped by the table,
\* followed by the equality filter whose value is encoded and escaped; a
\* query without a filter carries neither parameter.
C27_FilterEncodingByVersion ==
    DescriptorExecutedOnce =>
        IF FilterText(qr.args) = <<>>
        THEN ~Carries(qr.uri, FILTER_ENCODED) /\ ~Carries(qr.uri, FILTER_PLAIN)
        ELSE IF Below35
        THEN /\ Carries(qr.uri, FILTER_ENCODED)
             /\ ~Carries(qr.uri, FILTER_PLAIN)
             /\ OnlyEncoded(FilterValue(qr.uri))
             /\ Unquoted(FilterValue(qr.uri)) = FilterText(qr.args)
        ELSE /\ ~Carries(qr.uri, FILTER_ENCODED)
             /\ Carries(qr.uri, FILTER_PLAIN)
             /\ LET value == FilterValue(qr.uri)
                    escaped == EscapedByTable(qr.args.qfilter)
                IN /\ Len(value) >= Len(escaped)
                   /\ SubSeq(value, 1, Len(escaped)) = escaped
                   /\ Unquoted(Unescaped(SubSeq(value, Len(escaped) + 1, Len(value))))
                        = SubSeq(FilterText(qr.args), Len(qr.args.qfilter) + 1,
                                 Len(FilterText(qr.args)))

\* a query at the threshold version whose filter has the encoded forms of a
\* parenthesis and of a semicolon has been executed
C27_Witness ==
    /\ DescriptorExecutedOnce
    /\ api_version = V35
    /\ qr.args.qfilter = <<"%", "2", "8", "%", "3", "B">>
    /\ qr.args.equality_filter # NoEqualityFilter
    /\ Carries(qr.uri, FILTER_PLAIN)

DescriptorMade == qr.pc \in {"constructed", "executed"}

\* the page parameter of the uri of the last execute()
PageOfUri(uri) == uri[3]

----------------------------------------------------------------------------
(* Client.download_from_uri: the GET, the sink and the progress callback   *)

\* what a download has done so far: the chunks written to the file, the
\* calls of the callback, the bytes counted
Written(sink, reports, bytes_written) ==
    [sink |-> sink, reports |-> reports, bytes_written |-> bytes_written]

\* the loop over response.iter_content without its test `if chunk:`
RECURSIVE write_chunks_unfiltered(_, _, _, _)
write_chunks_unfiltered(chunks, size, callback, w) ==
    IF chunks = <<>> THEN w
    ELSE LET chunk == Head(chunks)
             bytes_written == w.bytes_written + Len(chunk)
         IN write_chunks_unfiltered(Tail(chunks), size, callback,
                Written(Append(w.sink, chunk),
                        IF callback THEN Append(w.reports, <<bytes_written, size>>)
                        ELSE w.reports,
                        bytes_written))

\* the loop over response.iter_content(chunk_size): a chunk that is not
\* empty is written, counted and reported to the callback if there is one
RECURSIVE write_chunks(_, _, _, _)
write_chunks(chunks, size, callback, w) ==
    IF chunks = <<>> THEN w
    ELSE LET chunk == Head(chunks)
             bytes_written == w.bytes_written + Len(chunk)
         IN write_chunks(Tail(chunks), size, callback,
                IF chunk # <<>>
                THEN Written(Append(w.sink, chunk),
                             IF callback THEN Append(w.reports, <<bytes_written, size>>)
                             ELSE w.reports,
                             bytes_written)
                ELSE w)

NoBytes == 0

Downloaded(exc, opened, w, returned) ==
    [op |-> "download_from_uri", exc |-> exc, gets |-> 1, opened |-> opened,
     sink |-> w.sink, reports |-> w.reports, bytes_written |-> w.bytes_written,
     returned |-> returned]

\* Client.download_from_uri(uri, file_name, chunk_size, size, callback): one
\* GET; any status but 200 raises before the file is opened; the chunks of
\* the body are written until the body ends or the connection breaks
download(resp, size, callback) ==
    IF resp.kind = "transport_error"
    THEN Downloaded("ConnectionError", FALSE, Written(<<>>, <<>>, 0), NoBytes)
    ELSE IF resp.status # 200
    THEN Downloaded(response_code_to_exception(resp.status), FALSE,
                    Written(<<>>, <<>>, 0), NoBytes)
    ELSE LET w == write_chunks(resp.chunks, size, callback, Written(<<>>, <<>>, 0))
         IN IF resp.broken
            THEN Downloaded("ChunkedEncodingError", TRUE, w, NoBytes)
            ELSE Downloaded("ok", TRUE, w, w.bytes_written)

\* the chunks iter_content can yield: an empty one, one byte, two bytes
Chunks == {<<>>, <<"a">>, <<"b", "c">>}

Bodies == SeqsUpTo(Chunks, MaxChunks)

DownloadResponse(kind, status, chunks, broken) ==
    [kind |-> kind, status |-> status, chunks |-> chunks, broken |-> broken]

\* the answers to the GET: no answer, an error status, a status of success
\* that is not 200, and 200 with a body that ends or breaks
DownloadResponses ==
    {DownloadResponse("transport_error", 0, <<>>, FALSE)}
    \cup {DownloadResponse("response", sc, <<<<"a">>>>, FALSE) : sc \in {206, 404, 500}}
    \cup {DownloadResponse("response", 200, chunks, broken) :
             chunks \in Bodies, broken \in BOOLEAN}

\* the size argument: its default 0, and the length of the file
DownloadSizes == {0, 3}

DownloadCall(resp, size, callback, d) ==
    dl' = [resp |-> resp, size |-> size, callback |-> callback] @@ d

\* a call of download_from_uri on a client that is logged in
Download(resp, size, callback) ==
    /\ session # 0
    /\ DownloadCall(resp, size, callback, download(resp, size, callback))
    /\ UNCHANGED <<clientVars, up, tm, lk, rq, qr, wk>>

InitDownload ==
    /\ InitLoggedIn
    /\ up = UpIdle /\ tm = TmIdle /\ lk = LkIdle /\ rq = RqIdle /\ qr = QrIdle
    /\ wk = WkIdle /\ dl = DlIdle

NextDownload ==
    \E resp \in DownloadResponses, size \in DownloadSizes, callback \in BOOLEAN :
        Download(resp, size, callback)

SpecDownload == InitDownload /\ [][NextDownload]_vars

----------------------------------------------------------------------------
(* Claims on the download, checked under SpecDownload                      *)

DownloadEnded == dl.op = "download_from_uri"

\* the bytes of the first n chunks of a sequence of chunks
RECURSIVE BytesOf(_, _)
BytesOf(chunks, n) == IF n = 0 THEN 0 ELSE BytesOf(chunks, n - 1) + Len(chunks[n])

\* C30: a download sends one GET.  On any status but 200 it raises the
\* error of the status at once: nothing is written and nothing reported.
\* On 200 the sink holds the bytes of the body in their order, the callback
\* has been called once after each chunk written, with the bytes written up
\* to that chunk and the size argument, the byte counts strictly increase,
\* and a download that returns returns the sum of the chunk lengths, which
\* is the last byte count reported.
C30_DownloadStreamsChunks ==
    DownloadEnded =>
        /\ dl.gets = 1
        /\ (dl.resp.kind = "response" /\ dl.resp.status # 200) =>
               /\ dl.exc = response_code_to_exception(dl.resp.status)
               /\ ~dl.opened /\ dl.sink = <<>> /\ dl.reports = <<>>
        /\ (dl.resp.kind = "response" /\ dl.resp.status = 200) =>
               /\ Flatten(dl.sink) = Flatten(dl.resp.chunks)
               /\ dl.callback => Len(dl.reports) = Len(dl.sink)
               /\ \A i \in 1..Len(dl.reports) :
                      /\ dl.reports[i] = <<BytesOf(dl.sink, i), dl.size>>
                      /\ i > 1 => dl.reports[i][1] > dl.reports[i - 1][1]
               /\ dl.exc = "ok" =>
                      /\ dl.returned = BytesOf(dl.resp.chunks, Len(dl.resp.chunks))
                      /\ dl.reports # <<>> =>
                             dl.returned = dl.reports[Len(dl.reports)][1]

\* a body of three chunks, one of them empty, has been downloaded with a
\* callback
C30_Witness ==
    /\ DownloadEnded
    /\ dl.exc = "ok"
    /\ dl.callback
    /\ dl.resp.chunks = <<<<"a">>, <<>>, <<"b", "c">>>>
    /\ dl.reports = <<<<1, 3>>, <<3, 3>>>>
    /\ dl.returned = 3

----------------------------------------------------------------------------
(* Claims on the linked-resource operations, checked under SpecLinks       *)

LinkedCall == lk.op = "linked_resource"

\* the Link children of the document that have the relation and the content
\* type of the call
MatchingLinks ==
    SelectSeq(lk.links,
              LAMBDA e : /\ e.tag = "Link"
                         /\ e.attrs.rel = lk.rel
                         /\ e.attrs.type = lk.media_type)

\* without a matching link the operation raises
\* OperationNotSupportedException and sends nothing
NoLinkNoRequest ==
    Len(MatchingLinks) = 0 =>
        lk.exc = "OperationNotSupportedException" /\ lk.reqs = <<>>

\* C32 as stated: without a matching link each operation raises
\* OperationNotSupportedException and sends no request; with exactly one
\* matching link its one request goes to the href of that link.
C32_LinkedRequestToLinkTarget ==
    LinkedCall =>
        /\ NoLinkNoRequest
        /\ Len(MatchingLinks) = 1 =>
               /\ Len(lk.reqs) = 1
               /\ lk.reqs[1].uri = <<MatchingLinks[1].attrs.href>>

\* C32, amended: without a matching link each operation raises
\* OperationNotSupportedException and sends no request; with exactly one
\* matching link get, post and put send their one request to the href of
\* that link, and delete sends it to that href followed by
\* ?force=False&recursive=False.
C32_LinkedRequestToLinkTargetWithDeleteParams ==
    LinkedCall =>
        /\ NoLinkNoRequest
        /\ Len(MatchingLinks) = 1 =>
               /\ Len(lk.reqs) = 1
               /\ lk.reqs[1].method = lk.name
               /\ lk.reqs[1].uri[1] = MatchingLinks[1].attrs.href
               /\ IF lk.name = "DELETE"
                  THEN Tail(lk.reqs[1].uri) = <<"?force=False&recursive=False">>
                  ELSE Tail(lk.reqs[1].uri) = <<>>

\* a delete on a document whose second child is the one matching link
C32_Witness ==
    /\ LinkedCall
    /\ lk.name = "DELETE"
    /\ Len(lk.links) = 3
    /\ Len(MatchingLinks) = 1
    /\ lk.reqs # <<>>
    /\ lk.reqs[1].uri[1] = "href_2"
    /\ lk.exc = "ok"


====
